---- MODULE Spec2Model ----
(***************************************************************************)
(* Model of json::JsonableBase (JsonableBase.hpp, fully inline variant):   *)
(* one rapidjson Document, the context stack of begin/end frames, and the  *)
(* typed set/push/begin/end primitives that write through the stack.       *)
(*                                                                         *)
(* A rapidjson value is a record                                           *)
(*     [k |-> kind, s |-> string payload, n |-> integer payload,           *)
(*      c |-> children]                                                    *)
(* whose children are records [name, value]: the members of an object in   *)
(* insertion order (duplicates are possible, AddMember never checks), or   *)
(* the elements of an array (name "").  A frame's `current` pointer is the *)
(* path of child indexes from the document root to the value it addresses. *)
(***************************************************************************)
EXTENDS Integers, Sequences, FiniteSets, TLC

\* ------------------------------------------------------------------ bounds

\* number of facade calls in one run of Spec
MaxCalls == 3

\* number of calls in one run of SpecTree (only call sequences that denote a tree)
MaxTreeCalls == 6

\* number of calls in one run of SpecBrackets (only well-bracketed begin/end calls)
MaxBracketCalls == 6

\* ------------------------------------------------------------------ inputs

\* a null `const char*` key; every other key argument is a C string
nullptr == "<nullptr>"

Keys == {"a", "b"}

KeyArgs == {nullptr, ""} \cup Keys

\* ------------------------------------------------------------------ values

Value(kind, str, num, children) ==
    [k |-> kind, s |-> str, n |-> num, c |-> children]

\* rapidjson::Value(kObjectType), rapidjson::Value(kArrayType)
EmptyObject == Value("object", "", 0, << >>)

EmptyArray == Value("array", "", 0, << >>)

\* rapidjson::Value valueVal(value.c_str(), allocator)
StringValue(str) == Value("string", str, 0, << >>)

\* rapidjson::Value valueVal(value) for int64_t, uint32_t, uint64_t
IntValue(num) == Value("int", "", num, << >>)

\* rapidjson::Value valueVal(value) for double
DoubleValue(num) == Value("double", "", num, << >>)

\* rapidjson::Value valueVal(value) for bool
BoolValue(b) == Value("bool", IF b THEN "true" ELSE "false", 0, << >>)

IsObject(v) == v.k = "object"

IsArray(v) == v.k = "array"

Child(name, v) == [name |-> name, value |-> v]

\* GenericValue::FindMember: index of the first member named key, 0 for MemberEnd()
FindMember(v, key) ==
    IF \E i \in 1..Len(v.c) : v.c[i].name = key
    THEN CHOOSE i \in 1..Len(v.c) :
            /\ v.c[i].name = key
            /\ \A j \in 1..(i - 1) : v.c[j].name # key
    ELSE 0

HasMember(v, key) == FindMember(v, key) # 0

\* GenericValue::AddMember: appends, never looks for an existing name
AddMember(v, name, val) == [v EXCEPT !.c = Append(@, Child(name, val))]

\* (*obj)[key] = std::move(val): overwrites the first member named key
AssignMember(v, key, val) == [v EXCEPT !.c[FindMember(v, key)].value = val]

\* GenericValue::PushBack
PushBack(v, val) == [v EXCEPT !.c = Append(@, Child("", val))]

\* Size() of an array, MemberCount() of an object
Size(v) == Len(v.c)

\* ------------------------------------------------------------------ strings and numbers

\* the zero byte inside a std::string
NUL == "\\0"

\* strlen(s): the number of characters before the first zero byte
strlen(s) ==
    LET At(i) == i + Len(NUL) - 1 <= Len(s) /\ SubSeq(s, i, i + Len(NUL) - 1) = NUL
        Hits == {i \in 1..Len(s) : At(i)}
    IN  IF Hits = {} THEN Len(s)
        ELSE (CHOOSE i \in Hits : \A j \in Hits : i <= j) - 1

\* value.c_str() as the callee reads it: the characters up to the first zero byte
c_str(s) == SubSeq(s, 1, strlen(s))

\* Integer widths, scaled down: a 32-bit type has Bits32 bits and a 64-bit
\* type Bits64 bits; the order of the ranges is the order of the real ones.
Bits32 == 4

Bits64 == 8

INT_MAX == 2^(Bits32 - 1) - 1

INT_MIN == -(2^(Bits32 - 1))

UINT32_MAX == 2^Bits32 - 1

INT64_MAX == 2^(Bits64 - 1) - 1

INT64_MIN == -(2^(Bits64 - 1))

UINT64_MAX == 2^Bits64 - 1

\* A double is the integer it holds; the finite doubles of the model lie
\* within the 64-bit ranges and infinity lies above every finite double.
Infinity == 2 * (UINT64_MAX + 1)

\* the type tests of GenericValue, read off the number flags set when the
\* value was constructed or parsed
IsString(v) == v.k = "string"

IsBool(v) == v.k = "bool"

IsNull(v) == v.k = "null"

IsDouble(v) == v.k = "double"

IsNumber(v) == v.k \in {"int", "double"}

IsInt(v) == v.k = "int" /\ INT_MIN <= v.n /\ v.n <= INT_MAX

IsUint(v) == v.k = "int" /\ 0 <= v.n /\ v.n <= UINT32_MAX

IsInt64(v) == v.k = "int" /\ INT64_MIN <= v.n /\ v.n <= INT64_MAX

IsUint64(v) == v.k = "int" /\ 0 <= v.n /\ v.n <= UINT64_MAX

\* static_cast to a narrower or differently signed integer type
ToInt64(n) == ((n - INT64_MIN) % 2^Bits64) + INT64_MIN

ToInt(n) == ((n - INT_MIN) % 2^Bits32) + INT_MIN

ToUint32(n) == n % 2^Bits32

ToUint64(n) == n % 2^Bits64

\* ------------------------------------------------------------------ pointers

RECURSIVE Deref(_, _)
\* *ptr: the value a path addresses inside doc
Deref(doc, path) ==
    IF path = << >> THEN doc
    ELSE Deref(doc.c[Head(path)].value, Tail(path))

RECURSIVE Store(_, _, _)
\* *ptr = val, in place: the document with the addressed value replaced
Store(doc, path, val) ==
    IF path = << >> THEN val
    ELSE [doc EXCEPT !.c[Head(path)].value = Store(@, Tail(path), val)]

\* struct JsonContext { rapidjson::Value* current; bool isArray; std::string key; }
JsonContext(ptr, isArr, key) ==
    [current |-> ptr, isArray |-> isArr, key |-> key]

\* ------------------------------------------------------------------ operations
\* Every operation is a function of (document_, contextStack_, arguments) to a
\* result: the new document and stack, and whether a RAPIDJSON_ASSERT of the
\* library was violated on the way (the call then does not complete).

Done(doc, stack) == [document_ |-> doc, contextStack_ |-> stack, asserted |-> FALSE]

AssertFails(doc, stack) == [document_ |-> doc, contextStack_ |-> stack, asserted |-> TRUE]

ensureObject(doc) == IF ~IsObject(doc) THEN EmptyObject ELSE doc

\* the top frame (only used on a non-empty stack)
Back(stack) == stack[Len(stack)]

pop_back(stack) == SubSeq(stack, 1, Len(stack) - 1)

pushContext(stack, ptr, isArr, key) == Append(stack, JsonContext(ptr, isArr, key))

\* setValue with the object-context write aimed at document_ instead of the
\* top frame's value (the way setArray and the getters address the root).
setValue_AtRoot(doc, stack, key, valueVal) ==
    IF stack # << >> /\ Back(stack).isArray
    THEN Done(Store(doc, Back(stack).current,
                    PushBack(Deref(doc, Back(stack).current), valueVal)), stack)
    ELSE IF key = nullptr \/ key = "" THEN Done(doc, stack)
         ELSE IF HasMember(doc, key)
              THEN Done(AssignMember(doc, key, valueVal), stack)
              ELSE Done(AddMember(doc, key, valueVal), stack)

\* setValue with the frame branch testing only `key` and not `strlen(key) > 0`
setValue_NullCheckOnly(doc, stack, key, valueVal) ==
    IF stack = << >>
    THEN IF key = nullptr THEN AssertFails(doc, stack)
         ELSE IF HasMember(doc, key)
              THEN Done(AssignMember(doc, key, valueVal), stack)
              ELSE Done(AddMember(doc, key, valueVal), stack)
    ELSE LET ptr == Back(stack).current
             current == Deref(doc, ptr)
         IN  IF Back(stack).isArray
             THEN IF ~IsArray(current) THEN AssertFails(doc, stack)
                  ELSE Done(Store(doc, ptr, PushBack(current, valueVal)), stack)
             ELSE IF key # nullptr
                  THEN IF ~IsObject(current) THEN AssertFails(doc, stack)
                       ELSE IF HasMember(current, key)
                            THEN Done(Store(doc, ptr, AssignMember(current, key, valueVal)), stack)
                            ELSE Done(Store(doc, ptr, AddMember(current, key, valueVal)), stack)
                  ELSE Done(doc, stack)

\* The body of setString; setInt64, setDouble, setBool, setUInt32 and setUInt64
\* repeat it verbatim and differ only in how valueVal is constructed.
setValue(doc, stack, key, valueVal) ==
    IF stack = << >>
    THEN \* root level: rapidjson::Value keyVal(key, allocator) is built first,
         \* and StringRef(key) asserts key != 0
         IF key = nullptr THEN AssertFails(doc, stack)
         ELSE LET root == ensureObject(doc) IN
              IF HasMember(root, key)
              THEN Done(AssignMember(root, key, valueVal), stack)
              ELSE Done(AddMember(root, key, valueVal), stack)
    ELSE LET ptr == Back(stack).current
             current == Deref(doc, ptr)
         IN  IF Back(stack).isArray
             THEN \* PushBack asserts IsArray()
                  IF ~IsArray(current) THEN AssertFails(doc, stack)
                  ELSE Done(Store(doc, ptr, PushBack(current, valueVal)), stack)
             ELSE IF key # nullptr /\ key # ""
                  THEN \* HasMember asserts IsObject()
                       IF ~IsObject(current) THEN AssertFails(doc, stack)
                       ELSE IF HasMember(current, key)
                            THEN Done(Store(doc, ptr, AssignMember(current, key, valueVal)), stack)
                            ELSE Done(Store(doc, ptr, AddMember(current, key, valueVal)), stack)
                  ELSE Done(doc, stack)

setString(doc, stack, key, value) == setValue(doc, stack, key, StringValue(c_str(value)))

setInt64(doc, stack, key, value) == setValue(doc, stack, key, IntValue(value))

setDouble(doc, stack, key, value) == setValue(doc, stack, key, DoubleValue(value))

setFloat(doc, stack, key, value) == setDouble(doc, stack, key, value)

setBool(doc, stack, key, value) == setValue(doc, stack, key, BoolValue(value))

setUInt32(doc, stack, key, value) == setValue(doc, stack, key, IntValue(value))

setUInt64(doc, stack, key, value) == setValue(doc, stack, key, IntValue(value))

beginObject(doc, stack, key) ==
    LET root == ensureObject(doc)
        frameKey == IF key # nullptr THEN key ELSE ""
    IN  IF stack = << >>
        THEN IF key # nullptr
             THEN LET added == AddMember(root, key, EmptyObject)
                  IN  \* targetObject = &document_[key]: the first member named key
                      Done(added, pushContext(stack, << FindMember(added, key) >>, FALSE, frameKey))
             ELSE \* targetObject = &document_
                  Done(root, pushContext(stack, << >>, FALSE, frameKey))
        ELSE LET ptr == Back(stack).current
                 current == Deref(root, ptr)
             IN  IF Back(stack).isArray
                 THEN \* PushBack asserts IsArray()
                      IF ~IsArray(current) THEN AssertFails(doc, stack)
                      ELSE LET pushed == PushBack(current, EmptyObject)
                           IN  Done(Store(root, ptr, pushed),
                                    pushContext(stack, Append(ptr, Size(pushed)), FALSE, frameKey))
                 ELSE IF key # nullptr
                      THEN \* AddMember asserts IsObject()
                           IF ~IsObject(current) THEN AssertFails(doc, stack)
                           ELSE LET added == AddMember(current, key, EmptyObject)
                                IN  Done(Store(root, ptr, added),
                                         pushContext(stack, Append(ptr, FindMember(added, key)),
                                                     FALSE, frameKey))
                      ELSE \* targetObject stays null: nothing is pushed
                           Done(root, stack)

\* beginArray pushing its frame with the OBJECT tag of beginObject
beginArray_ObjectTag(doc, stack, key) ==
    LET root == ensureObject(doc)
        frameKey == IF key # nullptr THEN key ELSE ""
    IN  IF stack = << >>
        THEN IF key # nullptr
             THEN LET added == AddMember(root, key, EmptyArray)
                  IN  Done(added, pushContext(stack, << FindMember(added, key) >>, FALSE, frameKey))
             ELSE Done(root, stack)
        ELSE LET ptr == Back(stack).current
                 current == Deref(root, ptr)
             IN  IF Back(stack).isArray
                 THEN IF ~IsArray(current) THEN AssertFails(doc, stack)
                      ELSE LET pushed == PushBack(current, EmptyArray)
                           IN  Done(Store(root, ptr, pushed),
                                    pushContext(stack, Append(ptr, Size(pushed)), FALSE, frameKey))
                 ELSE IF key # nullptr
                      THEN IF ~IsObject(current) THEN AssertFails(doc, stack)
                           ELSE LET added == AddMember(current, key, EmptyArray)
                                IN  Done(Store(root, ptr, added),
                                         pushContext(stack, Append(ptr, FindMember(added, key)),
                                                     FALSE, frameKey))
                      ELSE Done(root, stack)

beginArray(doc, stack, key) ==
    LET root == ensureObject(doc)
        frameKey == IF key # nullptr THEN key ELSE ""
    IN  IF stack = << >>
        THEN IF key # nullptr
             THEN LET added == AddMember(root, key, EmptyArray)
                  IN  \* targetArray = &document_[key]: the first member named key
                      Done(added, pushContext(stack, << FindMember(added, key) >>, TRUE, frameKey))
             ELSE \* no else branch in the source: targetArray stays null
                  Done(root, stack)
        ELSE LET ptr == Back(stack).current
                 current == Deref(root, ptr)
             IN  IF Back(stack).isArray
                 THEN \* PushBack asserts IsArray()
                      IF ~IsArray(current) THEN AssertFails(doc, stack)
                      ELSE LET pushed == PushBack(current, EmptyArray)
                           IN  Done(Store(root, ptr, pushed),
                                    pushContext(stack, Append(ptr, Size(pushed)), TRUE, frameKey))
                 ELSE IF key # nullptr
                      THEN \* AddMember asserts IsObject()
                           IF ~IsObject(current) THEN AssertFails(doc, stack)
                           ELSE LET added == AddMember(current, key, EmptyArray)
                                IN  Done(Store(root, ptr, added),
                                         pushContext(stack, Append(ptr, FindMember(added, key)),
                                                     TRUE, frameKey))
                      ELSE \* targetArray stays null: nothing is pushed
                           Done(root, stack)

\* endObject without the test of the top frame's tag
endObject_AnyTop(doc, stack) ==
    IF stack # << >> THEN Done(doc, pop_back(stack)) ELSE Done(doc, stack)

endObject(doc, stack) ==
    IF stack # << >> /\ ~Back(stack).isArray
    THEN Done(doc, pop_back(stack))
    ELSE Done(doc, stack)

endArray(doc, stack) ==
    IF stack # << >> /\ Back(stack).isArray
    THEN Done(doc, pop_back(stack))
    ELSE Done(doc, stack)

\* pushValue that also closes the array it appended to
pushValue_ClosesArray(doc, stack, valueVal) ==
    IF stack # << >> /\ IsArray(Deref(doc, Back(stack).current))
    THEN LET ptr == Back(stack).current
         IN  Done(Store(doc, ptr, PushBack(Deref(doc, ptr), valueVal)), pop_back(stack))
    ELSE Done(doc, stack)

\* The body shared by pushString, pushInt64, pushDouble and pushBool.  The
\* test is on the kind of the addressed value, not on the frame's isArray.
pushValue(doc, stack, valueVal) ==
    IF stack # << >> /\ IsArray(Deref(doc, Back(stack).current))
    THEN LET ptr == Back(stack).current
         IN  Done(Store(doc, ptr, PushBack(Deref(doc, ptr), valueVal)), stack)
    ELSE Done(doc, stack)

pushString(doc, stack, value) == pushValue(doc, stack, StringValue(c_str(value)))

pushInt64(doc, stack, value) == pushValue(doc, stack, IntValue(value))

pushDouble(doc, stack, value) == pushValue(doc, stack, DoubleValue(value))

pushBool(doc, stack, value) == pushValue(doc, stack, BoolValue(value))

\* pushObject() and pushArray(): like push<Kind>, the test is on the kind of
\* the addressed value; the frame is on the element just appended
pushContainer(doc, stack, container, isArray) ==
    IF stack # << >> /\ IsArray(Deref(doc, Back(stack).current))
    THEN LET ptr == Back(stack).current
             pushed == PushBack(Deref(doc, ptr), container)
         IN  Done(Store(doc, ptr, pushed),
                  pushContext(stack, Append(ptr, Size(pushed)), isArray, ""))
    ELSE Done(doc, stack)

pushObject(doc, stack) == pushContainer(doc, stack, EmptyObject, FALSE)

pushArray(doc, stack) == pushContainer(doc, stack, EmptyArray, TRUE)

\* ------------------------------------------------------------------ reading
\* A getter is a function of (document_, arguments) to the value it returns,
\* or to a violated RAPIDJSON_ASSERT / an undefined conversion.

Returns(value) == [ret |-> value, asserted |-> FALSE]

NoReturn == "<void>"

Fails == [ret |-> NoReturn, asserted |-> TRUE]

\* document_[key]: the value of the first member named key
Member(doc, key) == doc.c[FindMember(doc, key)].value

\* document_.HasMember(key) as the getters call it: StringRef(key) asserts
\* key != 0 and FindMember asserts IsObject()
CanLookUp(doc, key) == key # nullptr /\ IsObject(doc)

\* GetDouble() of a number
GetDouble(v) == v.n

\* static_cast<int64_t>(double): undefined when the value is out of range
CastToInt64(d) ==
    IF INT64_MIN <= d /\ d <= INT64_MAX THEN Returns(d) ELSE Fails

getString(doc, key, defaultValue) ==
    IF ~CanLookUp(doc, key) THEN Fails
    ELSE IF HasMember(doc, key) /\ IsString(Member(doc, key))
         THEN \* GetString() is a const char*, the std::string is built from it
              Returns(c_str(Member(doc, key).s))
         ELSE Returns(defaultValue)

\* getInt64 returning int64_t{} instead of the caller's default
getInt64_ZeroWhenAbsent(doc, key, defaultValue) ==
    IF ~CanLookUp(doc, key) THEN Fails
    ELSE IF HasMember(doc, key) /\ IsNumber(Member(doc, key))
         THEN LET value == Member(doc, key)
              IN  IF IsInt64(value) THEN Returns(value.n)
                  ELSE IF IsUint64(value) THEN Returns(ToInt64(value.n))
                  ELSE IF IsDouble(value) THEN CastToInt64(GetDouble(value))
                  ELSE Returns(0)
         ELSE Returns(0)

getInt64(doc, key, defaultValue) ==
    IF ~CanLookUp(doc, key) THEN Fails
    ELSE IF HasMember(doc, key) /\ IsNumber(Member(doc, key))
         THEN LET value == Member(doc, key)
              IN  IF IsInt64(value) THEN Returns(value.n)
                  ELSE IF IsUint64(value) THEN Returns(ToInt64(value.n))
                  ELSE IF IsInt(value) THEN Returns(value.n)
                  ELSE IF IsUint(value) THEN Returns(value.n)
                  ELSE IF IsDouble(value) THEN CastToInt64(GetDouble(value))
                  ELSE Returns(defaultValue)
         ELSE Returns(defaultValue)

getDouble(doc, key, defaultValue) ==
    IF ~CanLookUp(doc, key) THEN Fails
    ELSE IF HasMember(doc, key) /\ IsNumber(Member(doc, key))
         THEN Returns(GetDouble(Member(doc, key)))
         ELSE Returns(defaultValue)

\* static_cast<float>(getDouble(key, static_cast<double>(defaultValue)))
getFloat(doc, key, defaultValue) == getDouble(doc, key, defaultValue)

\* getBool accepting a number as a boolean (non-zero is true)
getBool_NumbersCoerced(doc, key, defaultValue) ==
    IF ~CanLookUp(doc, key) THEN Fails
    ELSE IF HasMember(doc, key) /\ IsBool(Member(doc, key))
         THEN Returns(Member(doc, key).s = "true")
         ELSE IF HasMember(doc, key) /\ IsNumber(Member(doc, key))
              THEN Returns(Member(doc, key).n # 0)
              ELSE Returns(defaultValue)

getBool(doc, key, defaultValue) ==
    IF ~CanLookUp(doc, key) THEN Fails
    ELSE IF HasMember(doc, key) /\ IsBool(Member(doc, key))
         THEN Returns(Member(doc, key).s = "true")
         ELSE Returns(defaultValue)

getUInt32(doc, key, defaultValue) ==
    IF ~CanLookUp(doc, key) THEN Fails
    ELSE IF HasMember(doc, key) /\ IsNumber(Member(doc, key))
         THEN LET value == Member(doc, key)
              IN  IF IsUint(value) THEN Returns(value.n)
                  ELSE IF IsUint64(value)
                       THEN Returns(IF value.n <= UINT32_MAX THEN ToUint32(value.n)
                                    ELSE defaultValue)
                  ELSE IF IsInt64(value)
                       THEN Returns(IF value.n >= 0 /\ value.n <= UINT32_MAX
                                    THEN ToUint32(value.n) ELSE defaultValue)
                  ELSE Returns(defaultValue)
         ELSE Returns(defaultValue)

getUInt64(doc, key, defaultValue) ==
    IF ~CanLookUp(doc, key) THEN Fails
    ELSE IF HasMember(doc, key) /\ IsNumber(Member(doc, key))
         THEN LET value == Member(doc, key)
              IN  IF IsUint64(value) THEN Returns(value.n)
                  ELSE IF IsUint(value) THEN Returns(value.n)
                  ELSE IF IsInt64(value)
                       THEN Returns(IF value.n >= 0 THEN ToUint64(value.n) ELSE defaultValue)
                  ELSE Returns(defaultValue)
         ELSE Returns(defaultValue)

\* ------------------------------------------------------------------ arrays of primitives
\* The element type T of getArray<T> / setArray<T> is one of the types
\* is_json_primitive_v accepts.

ElementTypes == {"string", "int", "int64_t", "double", "float", "bool", "uint32_t", "uint64_t"}

\* T{}
ZeroOf(T) == IF T = "string" THEN "" ELSE IF T = "bool" THEN FALSE ELSE 0

\* convertFromValue<T>: GetInt64() asserts the int64 flag, GetUint64() the uint64 flag
convertFromValue(T, value) ==
    CASE T = "string" -> Returns(IF IsString(value) THEN c_str(value.s) ELSE "")
      [] T = "int" ->
            IF ~IsNumber(value) THEN Returns(0)
            ELSE IF ~IsInt64(value) THEN Fails ELSE Returns(ToInt(value.n))
      [] T = "int64_t" ->
            IF ~IsNumber(value) THEN Returns(0)
            ELSE IF ~IsInt64(value) THEN Fails ELSE Returns(value.n)
      [] T \in {"double", "float"} ->
            Returns(IF IsNumber(value) THEN GetDouble(value) ELSE 0)
      [] T = "bool" -> Returns(IF IsBool(value) THEN value.s = "true" ELSE FALSE)
      [] T = "uint32_t" ->
            IF ~IsNumber(value) THEN Returns(0)
            ELSE IF ~IsUint64(value) THEN Fails ELSE Returns(ToUint32(value.n))
      [] T = "uint64_t" ->
            IF ~IsNumber(value) THEN Returns(0)
            ELSE IF ~IsUint64(value) THEN Fails ELSE Returns(value.n)

\* convertToValue<T>
convertToValue(T, item) ==
    CASE T = "string" -> StringValue(c_str(item))
      [] T \in {"double", "float"} -> DoubleValue(item)
      [] T = "bool" -> BoolValue(item)
      [] OTHER -> IntValue(item)

getArray(doc, T, key) ==
    IF ~CanLookUp(doc, key) THEN Fails
    ELSE IF HasMember(doc, key) /\ IsArray(Member(doc, key))
         THEN LET array == Member(doc, key)
                  element(i) == convertFromValue(T, array.c[i].value)
              IN  IF \E i \in 1..Size(array) : element(i).asserted THEN Fails
                  ELSE Returns([i \in 1..Size(array) |-> element(i).ret])
         ELSE Returns(<< >>)

\* hasKey: document_.HasMember(key)
hasKey(doc, key) ==
    IF ~CanLookUp(doc, key) THEN Fails ELSE Returns(HasMember(doc, key))

\* A pointer to a value that is no part of the Document any more: the value
\* it was taken to was replaced, and stays in the allocator's pool.
Orphan == << 0 >>

\* path leads to a value strictly inside the value at ptr
IsUnder(ptr, path) == Len(path) > Len(ptr) /\ SubSeq(path, 1, Len(ptr)) = ptr

\* the frames after the value at ptr was replaced by another: a frame on the
\* value itself now sees the new value, a frame on a value inside the old one
\* keeps its pointer into the old one
Replaced(stack, ptr) ==
    [f \in 1..Len(stack) |->
        IF IsUnder(ptr, stack[f].current) THEN [stack[f] EXCEPT !.current = Orphan]
        ELSE stack[f]]

\* setArray writes document_ itself, whatever the context stack holds
setArray(doc, stack, T, key, values) ==
    LET root == ensureObject(doc)
        array == Value("array", "", 0,
                       [i \in 1..Len(values) |-> Child("", convertToValue(T, values[i]))])
    IN  \* HasMember(key) asserts key != 0
        IF key = nullptr THEN AssertFails(doc, stack)
        ELSE IF HasMember(root, key)
             THEN Done(AssignMember(root, key, array),
                       Replaced(stack, << FindMember(root, key) >>))
             ELSE Done(AddMember(root, key, array), stack)

\* ------------------------------------------------------------------ JSON text
\* A text is the sequence of its tokens.  The Writer produces them from a
\* value, the Reader consumes them into a value.

Tok(t, str, num) == [t |-> t, s |-> str, n |-> num]

Punct(t) == Tok(t, "", 0)

StrTok(str) == Tok("string", str, 0)

\* digits without fraction or exponent
IntTok(num) == Tok("integer", "", num)

\* digits with a fraction or an exponent
DoubleTok(num) == Tok("double", "", num)

Written(toks) == [out |-> toks, ok |-> TRUE]

RECURSIVE Accept(_)
RECURSIVE AcceptChildren(_, _)
\* GenericValue::Accept(Writer&): the tokens written and whether the writer
\* went on to the end.  WriteDouble refuses NaN and infinity, and every caller
\* up to the root then returns at once.
Accept(v) ==
    CASE IsNull(v) -> Written(<< Punct("null") >>)
      [] IsBool(v) -> Written(<< Punct(v.s) >>)
      [] IsString(v) -> Written(<< StrTok(v.s) >>)
      [] v.k = "int" -> Written(<< IntTok(v.n) >>)
      [] IsDouble(v) ->
            IF v.n >= Infinity \/ v.n <= -Infinity
            THEN [out |-> << >>, ok |-> FALSE]
            ELSE Written(<< DoubleTok(v.n) >>)
      [] IsObject(v) ->
            LET r == AcceptChildren(v, 1)
            IN  [out |-> << Punct("{") >> \o r.out, ok |-> r.ok]
      [] IsArray(v) ->
            LET r == AcceptChildren(v, 1)
            IN  [out |-> << Punct("[") >> \o r.out, ok |-> r.ok]

\* members or elements i.. of v, then the closing bracket
AcceptChildren(v, i) ==
    IF i > Len(v.c)
    THEN Written(<< Punct(IF IsObject(v) THEN "}" ELSE "]") >>)
    ELSE LET lead == (IF i > 1 THEN << Punct(",") >> ELSE << >>)
                     \o (IF IsObject(v) THEN << StrTok(v.c[i].name), Punct(":") >> ELSE << >>)
             r == Accept(v.c[i].value)
         IN  IF ~r.ok THEN [out |-> lead \o r.out, ok |-> FALSE]
             ELSE LET rest == AcceptChildren(v, i + 1)
                  IN  [out |-> lead \o r.out \o rest.out, ok |-> rest.ok]

\* buffer.GetString() after document_.Accept(writer), whatever Accept returned
documentToString(doc) == Accept(doc).out

Parsed(v, next) == [ok |-> TRUE, v |-> v, next |-> next]

ParseError == [ok |-> FALSE, v |-> EmptyObject, next |-> 0]

Is(toks, i, t) == i <= Len(toks) /\ toks[i].t = t

RECURSIVE ParseValue(_, _)
RECURSIVE ParseMember(_, _, _)
RECURSIVE ParseElement(_, _, _)
\* GenericReader::ParseValue at token i: the value and the position after it
ParseValue(toks, i) ==
    IF i > Len(toks) THEN ParseError
    ELSE LET tok == toks[i]
         IN  CASE tok.t = "null" -> Parsed(Value("null", "", 0, << >>), i + 1)
               [] tok.t \in {"true", "false"} -> Parsed(BoolValue(tok.t = "true"), i + 1)
               [] tok.t = "string" -> Parsed(StringValue(tok.s), i + 1)
               [] tok.t = "integer" ->
                     \* an integer literal outside the 64-bit ranges is read as a double
                     Parsed(IF INT64_MIN <= tok.n /\ tok.n <= UINT64_MAX
                            THEN IntValue(tok.n) ELSE DoubleValue(tok.n), i + 1)
               [] tok.t = "double" -> Parsed(DoubleValue(tok.n), i + 1)
               [] tok.t = "{" ->
                     IF Is(toks, i + 1, "}") THEN Parsed(EmptyObject, i + 2)
                     ELSE ParseMember(toks, i + 1, EmptyObject)
               [] tok.t = "[" ->
                     IF Is(toks, i + 1, "]") THEN Parsed(EmptyArray, i + 2)
                     ELSE ParseElement(toks, i + 1, EmptyArray)
               [] OTHER -> ParseError

\* one member at token i of the object read so far, then `,` or `}`
ParseMember(toks, i, obj) ==
    IF ~(Is(toks, i, "string") /\ Is(toks, i + 1, ":")) THEN ParseError
    ELSE LET r == ParseValue(toks, i + 2)
         IN  IF ~r.ok THEN ParseError
             ELSE LET read == AddMember(obj, toks[i].s, r.v)
                  IN  IF Is(toks, r.next, ",") THEN ParseMember(toks, r.next + 1, read)
                      ELSE IF Is(toks, r.next, "}") THEN Parsed(read, r.next + 1)
                      ELSE ParseError

\* one element at token i of the array read so far, then `,` or `]`
ParseElement(toks, i, arr) ==
    LET r == ParseValue(toks, i)
    IN  IF ~r.ok THEN ParseError
        ELSE LET read == PushBack(arr, r.v)
             IN  IF Is(toks, r.next, ",") THEN ParseElement(toks, r.next + 1, read)
                 ELSE IF Is(toks, r.next, "]") THEN Parsed(read, r.next + 1)
                 ELSE ParseError

\* document_.Parse(text): one value and nothing after it
Parse(toks) ==
    LET r == ParseValue(toks, 1)
    IN  IF r.ok /\ r.next = Len(toks) + 1 THEN r ELSE ParseError

\* the zero byte in a text
NulTok == Tok("NUL", "", 0)

\* jsonStr.c_str() as the Reader takes it: the text up to its first zero byte
TextRead(jsonStr) ==
    LET nuls == {i \in 1..Len(jsonStr) : jsonStr[i] = NulTok}
    IN  IF nuls = {} THEN jsonStr
        ELSE SubSeq(jsonStr, 1, (CHOOSE i \in nuls : \A j \in nuls : i <= j) - 1)

\* rapidjson::Document doc; before anything is parsed into it
NoDocument == Value("null", "", 0, << >>)

\* parseFromString without contextStack_.clear()
parseFromString_KeepsFrames(doc, stack, jsonStr) ==
    LET r == Parse(TextRead(jsonStr))
    IN  Done(IF r.ok THEN r.v ELSE doc, stack)

\* document_.Parse leaves the document as it was when the text is rejected
parseFromString(doc, stack, jsonStr) ==
    LET r == Parse(TextRead(jsonStr))
    IN  Done(IF r.ok THEN r.v ELSE doc, << >>)

\* Jsonable::parseJson of the static-helper interface: a Document of its own,
\* and std::runtime_error when the Reader reports an error
parseJson(jsonStr) ==
    LET r == Parse(TextRead(jsonStr))
    IN  [doc |-> IF r.ok THEN r.v ELSE NoDocument, threw |-> ~r.ok]

\* ------------------------------------------------------------------ call history
\* What the caller did, kept beside the program state so that properties can
\* speak about call sequences: the last call, the brackets the caller has
\* opened and not yet closed, and the JSON tree the calls so far denote.

NoValue == Value("null", "", 0, << >>)

Call(op, key, val) == [op |-> op, key |-> key, val |-> val]

NoCall == Call("none", nullptr, NoValue)

SetOps == {"setString", "setInt64", "setDouble", "setFloat", "setBool", "setUInt32", "setUInt64"}

PushOps == {"pushString", "pushInt64", "pushDouble", "pushBool"}

BeginOps == {"beginObject", "beginArray"}

EndOps == {"endObject", "endArray"}

\* the container kind a begin or end call names
KindOf(op) == IF op \in {"beginObject", "endObject"} THEN "object" ELSE "array"

\* The caller's brackets: a begin opens one, an end closes the most recent one
\* when it names the same kind.
BracketsAfter(br, call) ==
    IF call.op \in BeginOps THEN Append(br, KindOf(call.op))
    ELSE IF call.op \in EndOps /\ br # << >> /\ br[Len(br)] = KindOf(call.op)
         THEN SubSeq(br, 1, Len(br) - 1)
         ELSE br

\* whether the call keeps the sequence well bracketed
KeepsMatched(br, call) ==
    call.op \in EndOps => (br # << >> /\ br[Len(br)] = KindOf(call.op))

\* The denoted tree is built bottom-up: one entry per open bracket holding the
\* container under construction, attached to its parent when the bracket is
\* closed.  The bottom entry is the root object; `alias` marks the keyless
\* beginObject that opens the root itself.
Entry(kind, key, alias, node) == [kind |-> kind, key |-> key, alias |-> alias, node |-> node]

ExpectInit == << Entry("object", "", FALSE, EmptyObject) >>

\* index of the entry that receives values
Target(ex) == IF ex[Len(ex)].alias THEN Len(ex) - 1 ELSE Len(ex)

Names(node) == {node.c[i].name : i \in 1..Len(node.c)}

Appended(node, name, val) == [node EXCEPT !.c = @ \o << [name |-> name, value |-> val] >>]

\* insert if absent, else overwrite in place (names are unique in a denoted tree)
Upserted(node, name, val) ==
    IF name \in Names(node)
    THEN [node EXCEPT !.c = [i \in 1..Len(node.c) |->
                                IF node.c[i].name = name
                                THEN [name |-> name, value |-> val]
                                ELSE node.c[i]]]
    ELSE Appended(node, name, val)

\* whether the call is one the denotation covers, given the calls before it
Covered(ex, call) ==
    LET depth == Len(ex) - 1
        ctx == ex[Target(ex)].node
    IN  CASE call.op \in BeginOps ->
                IF depth = 0 /\ call.op = "beginObject" /\ call.key = nullptr THEN TRUE
                ELSE IF ctx.k = "object"
                     THEN call.key \notin {nullptr, ""} /\ call.key \notin Names(ctx)
                     ELSE call.key = nullptr
          [] call.op \in EndOps -> depth > 0 /\ ex[Len(ex)].kind = KindOf(call.op)
          [] OTHER -> depth > 0

ExpectAfter(ex, call) ==
    LET t == Target(ex)
        ctx == ex[t].node
        top == ex[Len(ex)]
        rest == SubSeq(ex, 1, Len(ex) - 1)
    IN  CASE call.op \in BeginOps ->
                IF Len(ex) = 1 /\ call.op = "beginObject" /\ call.key = nullptr
                THEN Append(ex, Entry("object", "", TRUE, EmptyObject))
                ELSE Append(ex, Entry(KindOf(call.op),
                                      IF ctx.k = "object" THEN call.key ELSE "",
                                      FALSE,
                                      IF call.op = "beginObject" THEN EmptyObject ELSE EmptyArray))
          [] call.op \in EndOps ->
                IF top.alias THEN rest
                ELSE [rest EXCEPT ![Target(rest)].node = Appended(@, top.key, top.node)]
          [] call.op \in SetOps ->
                IF ctx.k = "array" THEN [ex EXCEPT ![t].node = Appended(@, "", call.val)]
                ELSE IF call.key \in {nullptr, ""} THEN ex
                     ELSE [ex EXCEPT ![t].node = Upserted(@, call.key, call.val)]
          [] call.op \in PushOps ->
                IF ctx.k = "array" THEN [ex EXCEPT ![t].node = Appended(@, "", call.val)]
                ELSE ex
          [] OTHER -> ex

\* ------------------------------------------------------------------ state

VARIABLES
    document_,      \* rapidjson::Document document_
    contextStack_,  \* std::vector<JsonContext> contextStack_
    status,         \* "running"; "aborted" or "undefined" once a library assertion was violated
    last,           \* the last call made
    ncalls,         \* number of calls made
    brackets,       \* kinds of the caller's unclosed begin calls
    matched,        \* every end call so far closed the most recent unclosed begin
    expect,         \* the tree under construction that the calls so far denote
    covered,        \* every call so far is one the denotation covers
    ret,            \* what the last call returned
    objects,        \* the user objects: fields, and each one's own document_ and contextStack_
    hist            \* per user object, the toJson / fromJson calls made on it and their texts

vars == << ncalls, document_, contextStack_, status, last, brackets, matched, expect, covered,
           ret, objects, hist >>

\* JsonableBase(): document_.SetObject(), empty contextStack_
Init ==
    /\ document_ = EmptyObject
    /\ contextStack_ = << >>
    /\ status = "running"
    /\ last = NoCall
    /\ ncalls = 0
    /\ brackets = << >>
    /\ matched = TRUE
    /\ expect = ExpectInit
    /\ covered = TRUE
    /\ ret = NoReturn
    /\ objects = << >>
    /\ hist = << >>

\* One call of a member function with result r, returning value.  A violated
\* RAPIDJSON_ASSERT ends the run: the process aborts where assertions are
\* compiled in, and the behaviour is undefined where NDEBUG removes them.
Run(call, r, value) ==
    /\ status = "running"
    /\ ret' = (IF r.asserted THEN NoReturn ELSE value)
    /\ UNCHANGED << objects, hist >>
    /\ ncalls' = ncalls + 1
    /\ last' = call
    /\ matched' = (matched /\ KeepsMatched(brackets, call))
    /\ covered' = (covered /\ Covered(expect, call))
    /\ IF r.asserted
       THEN /\ status' \in {"aborted", "undefined"}
            /\ UNCHANGED << document_, contextStack_, brackets, expect >>
       ELSE /\ status' = "running"
            /\ document_' = r.document_
            /\ contextStack_' = r.contextStack_
            /\ brackets' = BracketsAfter(brackets, call)
            /\ expect' = IF covered' THEN ExpectAfter(expect, call) ELSE ExpectInit

\* a call that returns nothing
Step(call, r) == Run(call, r, NoReturn)

\* a call of a const member function with outcome g: the facade is left as it is
Read(call, g) ==
    Run(call,
        IF g.asserted THEN AssertFails(document_, contextStack_)
        ELSE Done(document_, contextStack_),
        g.ret)

\* ------------------------------------------------------------------ inputs of the calls

Strings == {"x"}

Int64s == {-1}

Doubles == {1}

Floats == {2}

Bools == {TRUE}

UInt32s == {3}

UInt64s == {4}

\* ------------------------------------------------------------------ actions

CallSetString(key, value) ==
    Step(Call("setString", key, StringValue(value)),
         setString(document_, contextStack_, key, value))

CallSetInt64(key, value) ==
    Step(Call("setInt64", key, IntValue(value)),
         setInt64(document_, contextStack_, key, value))

CallSetDouble(key, value) ==
    Step(Call("setDouble", key, DoubleValue(value)),
         setDouble(document_, contextStack_, key, value))

CallSetFloat(key, value) ==
    Step(Call("setFloat", key, DoubleValue(value)),
         setFloat(document_, contextStack_, key, value))

CallSetBool(key, value) ==
    Step(Call("setBool", key, BoolValue(value)),
         setBool(document_, contextStack_, key, value))

CallSetUInt32(key, value) ==
    Step(Call("setUInt32", key, IntValue(value)),
         setUInt32(document_, contextStack_, key, value))

CallSetUInt64(key, value) ==
    Step(Call("setUInt64", key, IntValue(value)),
         setUInt64(document_, contextStack_, key, value))

CallPushString(value) ==
    Step(Call("pushString", nullptr, StringValue(value)),
         pushString(document_, contextStack_, value))

CallPushInt64(value) ==
    Step(Call("pushInt64", nullptr, IntValue(value)),
         pushInt64(document_, contextStack_, value))

CallPushDouble(value) ==
    Step(Call("pushDouble", nullptr, DoubleValue(value)),
         pushDouble(document_, contextStack_, value))

CallPushBool(value) ==
    Step(Call("pushBool", nullptr, BoolValue(value)),
         pushBool(document_, contextStack_, value))

CallBeginObject(key) ==
    Step(Call("beginObject", key, NoValue), beginObject(document_, contextStack_, key))

CallBeginArray(key) ==
    Step(Call("beginArray", key, NoValue), beginArray(document_, contextStack_, key))

CallEndObject ==
    Step(Call("endObject", nullptr, NoValue), endObject(document_, contextStack_))

CallEndArray ==
    Step(Call("endArray", nullptr, NoValue), endArray(document_, contextStack_))

\* at most MaxCalls calls, any call at any time
Within(A) == ncalls < MaxCalls /\ A

Next ==
    \/ \E key \in KeyArgs, value \in Strings : Within(CallSetString(key, value))
    \/ \E key \in KeyArgs, value \in Int64s : Within(CallSetInt64(key, value))
    \/ \E key \in KeyArgs, value \in Doubles : Within(CallSetDouble(key, value))
    \/ \E key \in KeyArgs, value \in Floats : Within(CallSetFloat(key, value))
    \/ \E key \in KeyArgs, value \in Bools : Within(CallSetBool(key, value))
    \/ \E key \in KeyArgs, value \in UInt32s : Within(CallSetUInt32(key, value))
    \/ \E key \in KeyArgs, value \in UInt64s : Within(CallSetUInt64(key, value))
    \/ \E value \in Strings : Within(CallPushString(value))
    \/ \E value \in Int64s : Within(CallPushInt64(value))
    \/ \E value \in Doubles : Within(CallPushDouble(value))
    \/ \E value \in Bools : Within(CallPushBool(value))
    \/ \E key \in KeyArgs : Within(CallBeginObject(key))
    \/ \E key \in KeyArgs : Within(CallBeginArray(key))
    \/ Within(CallEndObject)
    \/ Within(CallEndArray)

Spec == Init /\ [][Next]_vars

\* Longer runs over the call sequences that denote a tree: every call is one
\* the denotation covers.
Denoting(A) == ncalls < MaxTreeCalls /\ A /\ covered'

NextTree ==
    \/ \E key \in KeyArgs, value \in Strings : Denoting(CallSetString(key, value))
    \/ \E key \in KeyArgs, value \in Int64s : Denoting(CallSetInt64(key, value))
    \/ \E value \in Strings : Denoting(CallPushString(value))
    \/ \E value \in Bools : Denoting(CallPushBool(value))
    \/ \E key \in KeyArgs : Denoting(CallBeginObject(key))
    \/ \E key \in KeyArgs : Denoting(CallBeginArray(key))
    \/ Denoting(CallEndObject)
    \/ Denoting(CallEndArray)

SpecTree == Init /\ [][NextTree]_vars

\* Longer runs of begin/end calls alone, every end closing the most recent
\* unclosed begin of its kind; the keys are arbitrary.
Bracketing(A) == ncalls < MaxBracketCalls /\ A /\ matched'

NextBrackets ==
    \/ \E key \in KeyArgs : Bracketing(CallBeginObject(key))
    \/ \E key \in KeyArgs : Bracketing(CallBeginArray(key))
    \/ Bracketing(CallEndObject)
    \/ Bracketing(CallEndArray)

SpecBrackets == Init /\ [][NextBrackets]_vars

\* ------------------------------------------------------------------ reading the Document

\* number of calls in one run of SpecRead
MaxReadCalls == 3

\* A text handed to the parser: its tokens, and the value a JSON reader has
\* to make of it (wellFormed FALSE when it is not JSON).
Text(toks, value) == [text |-> toks, wellFormed |-> TRUE, value |-> value]

NotJson(toks) == [text |-> toks, wellFormed |-> FALSE, value |-> NoValue]

Obj(members) == Value("object", "", 0, members)

Arr(values) == Value("array", "", 0, [i \in 1..Len(values) |-> Child("", values[i])])

\* {"a":"x","b":null}
TextStringNull ==
    Text(<< Punct("{"), StrTok("a"), Punct(":"), StrTok("x"), Punct(","),
            StrTok("b"), Punct(":"), Punct("null"), Punct("}") >>,
         Obj(<< Child("a", StringValue("x")), Child("b", NoValue) >>))

\* {"a":[-1,true],"b":{"a":1.0}}
TextNested ==
    Text(<< Punct("{"), StrTok("a"), Punct(":"), Punct("["), IntTok(-1), Punct(","),
            Punct("true"), Punct("]"), Punct(","), StrTok("b"), Punct(":"), Punct("{"),
            StrTok("a"), Punct(":"), DoubleTok(1), Punct("}"), Punct("}") >>,
         Obj(<< Child("a", Arr(<< IntValue(-1), BoolValue(TRUE) >>)),
                Child("b", Obj(<< Child("a", DoubleValue(1)) >>)) >>))

\* {}
TextEmptyObject == Text(<< Punct("{"), Punct("}") >>, EmptyObject)

\* { not valid json
TextNotValid == NotJson(<< Punct("{"), Tok("word", "not", 0), Tok("word", "valid", 0),
                           Tok("word", "json", 0) >>)

\* {"a":"x",}
TextTrailingComma ==
    NotJson(<< Punct("{"), StrTok("a"), Punct(":"), StrTok("x"), Punct(","), Punct("}") >>)

\* the empty string
TextEmpty == NotJson(<< >>)

\* [-1]
TextArrayRoot == Text(<< Punct("["), IntTok(-1), Punct("]") >>, Arr(<< IntValue(-1) >>))

\* "x"
TextStringRoot == Text(<< StrTok("x") >>, StringValue("x"))

ObjectTexts == {TextStringNull, TextNested, TextEmptyObject}

\* well-formed JSON whose root is no object
OtherRootTexts == {TextArrayRoot, TextStringRoot}

MalformedTexts == {TextNotValid, TextTrailingComma, TextEmpty}

Texts == ObjectTexts \cup MalformedTexts

DefaultStrings == {"dflt"}

DefaultNumbers == {9}

DefaultBools == {FALSE}

StringArrays == {<< >>, << "x", "y" >>}

Int64Arrays == {<< -1 >>}

GetOps == {"getString", "getInt64", "getDouble", "getFloat", "getBool", "getUInt32", "getUInt64"}

\* a frame is open on a value strictly inside the member of the root named key
Detaches(doc, stack, key) ==
    /\ key # nullptr /\ IsObject(doc) /\ HasMember(doc, key)
    /\ \E f \in 1..Len(stack) :
          /\ Len(stack[f].current) > 1
          /\ Head(stack[f].current) = FindMember(doc, key)

CallGetString(key, defaultValue) ==
    Read(Call("getString", key, defaultValue), getString(document_, key, defaultValue))

CallGetInt64(key, defaultValue) ==
    Read(Call("getInt64", key, defaultValue), getInt64(document_, key, defaultValue))

CallGetDouble(key, defaultValue) ==
    Read(Call("getDouble", key, defaultValue), getDouble(document_, key, defaultValue))

CallGetFloat(key, defaultValue) ==
    Read(Call("getFloat", key, defaultValue), getFloat(document_, key, defaultValue))

CallGetBool(key, defaultValue) ==
    Read(Call("getBool", key, defaultValue), getBool(document_, key, defaultValue))

CallGetUInt32(key, defaultValue) ==
    Read(Call("getUInt32", key, defaultValue), getUInt32(document_, key, defaultValue))

CallGetUInt64(key, defaultValue) ==
    Read(Call("getUInt64", key, defaultValue), getUInt64(document_, key, defaultValue))

CallGetArray(T, key) ==
    Read(Call("getArray", key, T), getArray(document_, T, key))

CallHasKey(key) ==
    Read(Call("hasKey", key, NoValue), hasKey(document_, key))

\* The values replaced by setArray stay where they are in the allocator's
\* pool; calls that would leave a frame on such a value are not followed.
CallSetArray(T, key, values) ==
    /\ ~Detaches(document_, contextStack_, key)
    /\ Step(Call("setArray", key, Arr([i \in 1..Len(values) |-> convertToValue(T, values[i])])),
            setArray(document_, contextStack_, T, key, values))

\* fromJson up to the call of the user's loadFromJson
CallParseFromString(jsonStr) ==
    Step(Call("parseFromString", nullptr, jsonStr),
         parseFromString(document_, contextStack_, jsonStr.text))

Reading(A) == ncalls < MaxReadCalls /\ A

NextRead ==
    \/ \E key \in Keys, value \in Strings : Reading(CallSetString(key, value))
    \/ \E key \in Keys, value \in Int64s : Reading(CallSetInt64(key, value))
    \/ \E key \in Keys, value \in Doubles : Reading(CallSetDouble(key, value))
    \/ \E key \in Keys, value \in Bools : Reading(CallSetBool(key, value))
    \/ \E key \in {nullptr} \cup Keys : Reading(CallBeginObject(key))
    \/ \E key \in Keys : Reading(CallBeginArray(key))
    \/ Reading(CallEndObject)
    \/ \E key \in KeyArgs, values \in StringArrays : Reading(CallSetArray("string", key, values))
    \/ \E key \in KeyArgs, values \in Int64Arrays : Reading(CallSetArray("int64_t", key, values))
    \/ \E jsonStr \in Texts \cup OtherRootTexts : Reading(CallParseFromString(jsonStr))
    \/ \E key \in KeyArgs, d \in DefaultStrings : Reading(CallGetString(key, d))
    \/ \E key \in KeyArgs, d \in DefaultNumbers : Reading(CallGetInt64(key, d))
    \/ \E key \in KeyArgs, d \in DefaultNumbers : Reading(CallGetDouble(key, d))
    \/ \E key \in KeyArgs, d \in DefaultNumbers : Reading(CallGetFloat(key, d))
    \/ \E key \in KeyArgs, d \in DefaultBools : Reading(CallGetBool(key, d))
    \/ \E key \in KeyArgs, d \in DefaultNumbers : Reading(CallGetUInt32(key, d))
    \/ \E key \in KeyArgs, d \in DefaultNumbers : Reading(CallGetUInt64(key, d))
    \/ \E key \in KeyArgs, T \in {"string", "int64_t"} : Reading(CallGetArray(T, key))
    \/ \E key \in KeyArgs : Reading(CallHasKey(key))

SpecRead == Init /\ [][NextRead]_vars

\* ------------------------------------------------------------------ integers
\* Every integer a JSON number of the Document can hold, written by the
\* setters as a member or as the one element of an array, and read back by
\* the integer getters and getArray.

\* number of calls in one run of SpecNumbers
MaxNumberCalls == 3

\* the values of int64_t and of uint64_t
Int64Values == INT64_MIN..INT64_MAX

UInt64Values == 0..UINT64_MAX

Numbering(A) == ncalls < MaxNumberCalls /\ A

\* nothing was written yet: each run holds one integer in one place
Fresh == document_ = EmptyObject

NextNumbers ==
    \/ \E value \in Int64Values : Numbering(Fresh /\ CallSetInt64("a", value))
    \/ \E value \in UInt64Values : Numbering(Fresh /\ CallSetUInt64("a", value))
    \/ \E value \in Int64Values :
          Numbering(Fresh /\ CallSetArray("int64_t", "b", << value >>))
    \/ \E value \in UInt64Values :
          Numbering(Fresh /\ CallSetArray("uint64_t", "b", << value >>))
    \/ \E d \in DefaultNumbers : Numbering(CallGetInt64("a", d))
    \/ \E d \in DefaultNumbers : Numbering(CallGetUInt32("a", d))
    \/ \E d \in DefaultNumbers : Numbering(CallGetUInt64("a", d))
    \/ Numbering(CallGetArray("uint32_t", "b"))

SpecNumbers == Init /\ [][NextNumbers]_vars

\* ------------------------------------------------------------------ loading a field
\* FromJsonable::loadField<T>(key, target, validator) on a Document the
\* setters filled.  objects holds the caller's variables, one per type T.

\* number of calls in one run of SpecLoad
MaxLoadCalls == 3

\* the validators handed to loadField: none, or a test of the loaded value
Validators(T) == IF T = "string" THEN {nullptr, "nonEmpty"} ELSE {nullptr, "positive"}

\* validator(target)
Validate(validator, value) ==
    CASE validator = "nonEmpty" -> value # ""
      [] validator = "positive" -> value > 0

Loads(ok, target) == [ret |-> ok, target |-> target, asserted |-> FALSE]

\* the getters do not throw, and neither do these validators: the catch
\* clause is never entered
loadField(doc, T, key, target, validator) ==
    LET has == hasKey(doc, key)
        got == IF T = "string" THEN getString(doc, key, "") ELSE getInt64(doc, key, 0)
    IN  IF has.asserted THEN [ret |-> NoReturn, target |-> target, asserted |-> TRUE]
        ELSE IF ~has.ret THEN Loads(FALSE, target)
        ELSE IF got.asserted THEN [ret |-> NoReturn, target |-> target, asserted |-> TRUE]
        ELSE \* target = getString(key), before the validator is asked
             IF validator # nullptr /\ ~Validate(validator, got.ret)
             THEN Loads(FALSE, got.ret)
             ELSE Loads(TRUE, got.ret)

\* the caller's variables before the first call
InitLoad ==
    /\ document_ = EmptyObject
    /\ contextStack_ = << >>
    /\ status = "running"
    /\ last = NoCall
    /\ ncalls = 0
    /\ brackets = << >>
    /\ matched = TRUE
    /\ expect = ExpectInit
    /\ covered = TRUE
    /\ ret = NoReturn
    /\ objects = [string |-> "t", int64_t |-> 9]
    /\ hist = << >>

Loading(A) == ncalls < MaxLoadCalls /\ A

CallLoadField(T, key, validator) ==
    LET r == loadField(document_, T, key, objects[T], validator)
    IN  /\ status = "running"
        /\ ncalls' = ncalls + 1
        /\ last' = Call("loadField", key, [T |-> T, validator |-> validator])
        /\ IF r.asserted
           THEN /\ status' \in {"aborted", "undefined"}
                /\ ret' = NoReturn
                /\ UNCHANGED objects
           ELSE /\ status' = "running"
                /\ ret' = r.ret
                /\ objects' = [objects EXCEPT ![T] = r.target]
        /\ UNCHANGED << document_, contextStack_, brackets, matched, expect, covered, hist >>

NextLoad ==
    \/ \E key \in Keys, value \in Strings \cup {""} : Loading(CallSetString(key, value))
    \/ \E key \in Keys, value \in Int64s \cup {1} : Loading(CallSetInt64(key, value))
    \/ \E key \in KeyArgs, T \in {"string", "int64_t"} : \E validator \in Validators(T) :
          Loading(CallLoadField(T, key, validator))

SpecLoad == InitLoad /\ [][NextLoad]_vars

\* ------------------------------------------------------------------ user types
\* Classes derived from Jsonable: the fields, saveToJson and loadFromJson of
\* the classes the repository's tests define.  saveToJson is the sequence of
\* calls it makes on its own facade.

\* number of toJson / fromJson / equals calls in one run of SpecUser
MaxUserCalls == 3

DirectTypes == {"TestPerson", "TestClass"}

BracketTypes == {"BeginEndTestClass"}

UnclosedTypes == {"UnclosedArray", "UnclosedArrayInObject"}

UserTypes == DirectTypes \cup BracketTypes \cup UnclosedTypes

ObjectNames == {"x", "y"}

Fields(name, age, height, active, uint32Val, uint64Val, tags) ==
    [name |-> name, age |-> age, height |-> height, active |-> active,
     uint32Val |-> uint32Val, uint64Val |-> uint64Val, tags |-> tags]

\* the members after the default constructor
DefaultFields == Fields("", 0, 0, FALSE, 0, 0, << >>)

UserStrings == {"n", "x" \o NUL \o "y"}

UserTags == {<< >>, << "t", "u" >>}

UserDoubles == {1, Infinity}

\* the values the tests' setters and constructors give an object
FieldValues(type) ==
    CASE type = "TestPerson" ->
            {Fields(n, INT_MAX, 0, a, 0, 0, t) : n \in UserStrings, a \in BOOLEAN, t \in UserTags}
      [] type = "BeginEndTestClass" ->
            {Fields(n, 0, 0, FALSE, 0, 0, t) : n \in UserStrings, t \in UserTags}
      [] type = "TestClass" ->
            {Fields(n, -1, h, TRUE, UINT32_MAX, UINT64_MAX, << >>) :
                n \in UserStrings, h \in UserDoubles}
      [] OTHER -> {DefaultFields}

\* the members of a second object nobody assigned: TestClass has no
\* constructor and leaves its members indeterminate
FreshFields(type) ==
    IF type = "TestClass" THEN FieldValues(type) ELSE {DefaultFields}

Object(type, fields) ==
    [type |-> type, fields |-> fields, document_ |-> EmptyObject, contextStack_ |-> << >>]

\* one statement of a saveToJson body
Exec(call, doc, stack) ==
    CASE call.op = "setString" -> setString(doc, stack, call.key, call.val)
      [] call.op = "setInt64" -> setInt64(doc, stack, call.key, call.val)
      [] call.op = "setDouble" -> setDouble(doc, stack, call.key, call.val)
      [] call.op = "setBool" -> setBool(doc, stack, call.key, call.val)
      [] call.op = "setUInt32" -> setUInt32(doc, stack, call.key, call.val)
      [] call.op = "setUInt64" -> setUInt64(doc, stack, call.key, call.val)
      [] call.op = "setArray" -> setArray(doc, stack, "string", call.key, call.val)
      [] call.op = "pushString" -> pushString(doc, stack, call.val)
      [] call.op = "beginObject" -> beginObject(doc, stack, call.key)
      [] call.op = "beginArray" -> beginArray(doc, stack, call.key)
      [] call.op = "endObject" -> endObject(doc, stack)
      [] call.op = "endArray" -> endArray(doc, stack)

RECURSIVE ExecFrom(_, _, _)
\* the statements calls[i..] in order, up to a violated assertion
ExecFrom(calls, i, r) ==
    IF i > Len(calls) \/ r.asserted THEN r
    ELSE ExecFrom(calls, i + 1, Exec(calls[i], r.document_, r.contextStack_))

\* the calls saveToJson makes
SaveCalls(type, f) ==
    CASE type = "TestPerson" ->
            << Call("setString", "name", f.name),
               Call("setInt64", "age", f.age),
               Call("setBool", "active", f.active),
               Call("setArray", "tags", f.tags) >>
      [] type = "BeginEndTestClass" ->
            << Call("beginObject", nullptr, NoValue),
               Call("setString", "title", f.name),
               Call("beginArray", "tags", NoValue) >>
            \o [i \in 1..Len(f.tags) |-> Call("setString", "", f.tags[i])]
            \o << Call("endArray", nullptr, NoValue),
                  Call("endObject", nullptr, NoValue) >>
      [] type = "TestClass" ->
            << Call("setString", "name", f.name),
               Call("setInt64", "age", f.age),
               Call("setDouble", "height", f.height),
               Call("setBool", "active", f.active),
               Call("setUInt32", "uint32Val", f.uint32Val),
               Call("setUInt64", "uint64Val", f.uint64Val) >>
      [] type = "UnclosedArray" ->
            << Call("beginArray", "x", NoValue),
               Call("pushString", nullptr, "item1"),
               Call("pushString", nullptr, "item2") >>
      [] type = "UnclosedArrayInObject" ->
            << Call("setString", "key", "value"),
               Call("beginObject", "obj", NoValue),
               Call("beginArray", "x", NoValue),
               Call("pushString", nullptr, "item1"),
               Call("pushString", nullptr, "item2") >>

saveToJson(type, f, doc, stack) == ExecFrom(SaveCalls(type, f), 1, Done(doc, stack))

Loaded(f, gs) == [fields |-> f, asserted |-> \E i \in 1..Len(gs) : gs[i].asserted]

\* the members loadFromJson assigns from the getters' results; an assertion
\* violated in a getter ends the call
loadFromJson(type, f, doc) ==
    LET name == getString(doc, IF type = "BeginEndTestClass" THEN "title" ELSE "name", "")
        age == getInt64(doc, "age", 0)
        height == getDouble(doc, "height", 0)
        active == getBool(doc, "active", type = "TestPerson")
        uint32Val == getUInt32(doc, "uint32Val", 0)
        uint64Val == getUInt64(doc, "uint64Val", 0)
        tags == getArray(doc, "string", "tags")
    IN  CASE type = "TestPerson" ->
              Loaded([f EXCEPT !.name = name.ret, !.age = ToInt(age.ret),
                               !.active = active.ret, !.tags = tags.ret],
                     << name, age, active, tags >>)
          [] type = "BeginEndTestClass" ->
              Loaded([f EXCEPT !.name = name.ret, !.tags = tags.ret], << name, tags >>)
          [] type = "TestClass" ->
              Loaded([f EXCEPT !.name = name.ret, !.age = age.ret,
                               !.height = height.ret, !.active = active.ret,
                               !.uint32Val = uint32Val.ret, !.uint64Val = uint64Val.ret],
                     << name, age, height, active, uint32Val, uint64Val >>)
          [] OTHER -> Loaded(f, << >>)

\* ToJsonable::toJson: saveToJson on the object's own facade, then the text of
\* its Document
toJson(obj) ==
    LET r == saveToJson(obj.type, obj.fields, obj.document_, obj.contextStack_)
    IN  [obj |-> [obj EXCEPT !.document_ = r.document_, !.contextStack_ = r.contextStack_],
         text |-> documentToString(r.document_),
         asserted |-> r.asserted]

\* FromJsonable::fromJson: parseFromString, then loadFromJson
fromJson(obj, jsonStr) ==
    LET r == parseFromString(obj.document_, obj.contextStack_, jsonStr)
        l == loadFromJson(obj.type, obj.fields, r.document_)
    IN  [obj |-> [obj EXCEPT !.document_ = r.document_, !.contextStack_ = r.contextStack_,
                             !.fields = l.fields],
         asserted |-> r.asserted \/ l.asserted]

Made(op, text) == [op |-> op, text |-> text]

\* the texts toJson has returned so far
Produced ==
    UNION {{hist[o][i].text : i \in {j \in 1..Len(hist[o]) : hist[o][j].op = "toJson"}} :
           o \in ObjectNames}

\* the texts handed to fromJson: one toJson returned, or one from outside
UserTexts == Produced \cup {TextEmptyObject.text, TextNotValid.text}

\* two objects of one user type: x as the test filled it, y fresh
InitUser ==
    /\ document_ = EmptyObject
    /\ contextStack_ = << >>
    /\ status = "running"
    /\ last = NoCall
    /\ ncalls = 0
    /\ brackets = << >>
    /\ matched = TRUE
    /\ expect = ExpectInit
    /\ covered = TRUE
    /\ ret = NoReturn
    /\ \E type \in UserTypes :
         \E fx \in FieldValues(type), fy \in FreshFields(type) :
            objects = [o \in ObjectNames |-> Object(type, IF o = "x" THEN fx ELSE fy)]
    /\ hist = [o \in ObjectNames |-> << >>]

\* One call on user objects: objs and made are the objects and their
\* histories after it, value what it returned.
UserRun(call, objs, made, asserted, value) ==
    /\ status = "running"
    /\ ncalls < MaxUserCalls
    /\ ncalls' = ncalls + 1
    /\ last' = call
    /\ IF asserted
       THEN /\ status' \in {"aborted", "undefined"}
            /\ ret' = NoReturn
            /\ UNCHANGED << objects, hist >>
       ELSE /\ status' = "running"
            /\ ret' = value
            /\ objects' = objs
            /\ hist' = made
    /\ UNCHANGED << document_, contextStack_, brackets, matched, expect, covered >>

ToJson(o) ==
    LET r == toJson(objects[o])
    IN  UserRun(Call("toJson", o, NoValue),
                [objects EXCEPT ![o] = r.obj],
                [hist EXCEPT ![o] = Append(@, Made("toJson", r.text))],
                r.asserted, r.text)

FromJson(o, jsonStr) ==
    LET r == fromJson(objects[o], jsonStr)
    IN  UserRun(Call("fromJson", o, jsonStr),
                [objects EXCEPT ![o] = r.obj],
                [hist EXCEPT ![o] = Append(@, Made("fromJson", jsonStr))],
                r.asserted, NoReturn)

\* Jsonable::equals and operator==: toJson() == other.toJson()
Equals(o, other) ==
    LET r1 == toJson(objects[o])
        objs1 == [objects EXCEPT ![o] = r1.obj]
        r2 == toJson(objs1[other])
        made1 == [hist EXCEPT ![o] = Append(@, Made("toJson", r1.text))]
    IN  UserRun(Call("equals", o, other),
                [objs1 EXCEPT ![other] = r2.obj],
                [made1 EXCEPT ![other] = Append(@, Made("toJson", r2.text))],
                r1.asserted \/ r2.asserted, r1.text = r2.text)

NextUser ==
    \/ \E o \in ObjectNames : ToJson(o)
    \/ \E o \in ObjectNames : \E jsonStr \in UserTexts : FromJson(o, jsonStr)
    \/ \E o \in ObjectNames, other \in ObjectNames : Equals(o, other)

SpecUser == InitUser /\ [][NextUser]_vars

\* ------------------------------------------------------------------ construction from text
\* A user type that inherits Jsonable's constructors (using Jsonable::Jsonable)
\* and is constructed from a JSON text.

\* the user types with using Jsonable::Jsonable
StringConstructible == {"TestPerson"}

\* Jsonable's own loadFromJson: void loadFromJson() override = 0
PureVirtual == "Jsonable"

\* the class whose loadFromJson a virtual call reaches: while Jsonable's
\* constructor runs the object is a Jsonable, afterwards it is of its type
LoadFromJsonOf(type, constructing) == IF constructing THEN PureVirtual ELSE type

\* explicit Jsonable(const std::string& jsonStr) { fromJson(jsonStr); } as the
\* base of a new object of the user type under the name o.  The virtual call
\* of a pure virtual function from a constructor is undefined.
Construct(o, jsonStr) ==
    LET type == objects[o].type
        r == parseFromString(EmptyObject, << >>, jsonStr)
        callee == LoadFromJsonOf(type, TRUE)
        l == loadFromJson(type, DefaultFields, r.document_)
    IN  UserRun(Call("Jsonable", o, jsonStr),
                [objects EXCEPT ![o] = [type |-> type, fields |-> l.fields,
                                        document_ |-> r.document_,
                                        contextStack_ |-> r.contextStack_]],
                [hist EXCEPT ![o] = << Made("Jsonable", jsonStr) >>],
                r.asserted \/ callee = PureVirtual \/ l.asserted, NoReturn)

NextConstruct ==
    \/ \E o \in ObjectNames : ToJson(o)
    \/ \E o \in ObjectNames : \E jsonStr \in UserTexts : FromJson(o, jsonStr)
    \/ \E o \in ObjectNames : \E jsonStr \in UserTexts :
          objects[o].type \in StringConstructible /\ Construct(o, jsonStr)

SpecConstruct == InitUser /\ [][NextConstruct]_vars

\* ------------------------------------------------------------------ copies
\* Two facades, each with its own document_ and contextStack_.  A Document's
\* values live in the memory of an allocator; allocator names the facade whose
\* allocator that is, and a facade reads and writes its Document there.

\* number of calls in one run of SpecCopy
MaxCopyCalls == 4

\* JsonableBase(): document_.SetObject() in the facade's own allocator
Facade(o) == [document_ |-> EmptyObject, contextStack_ |-> << >>, allocator |-> o]

\* the Document facade o works on
DocumentOf(objs, o) == objs[objs[o].allocator].document_

\* document_.CopyFrom(other.document_, document_.GetAllocator()) sharing the
\* source's values instead of copying them
CopyFrom_Shared(objs, o, other) ==
    [objs[o] EXCEPT !.allocator = objs[other].allocator]

\* document_.CopyFrom(other.document_, document_.GetAllocator()): a deep copy
\* of the source's values into the facade's own allocator
CopyFrom(objs, o, other) ==
    [objs[o] EXCEPT !.document_ = DocumentOf(objs, other), !.allocator = o]

\* JsonableBase(const JsonableBase& other): a new facade under the name o;
\* contextStack_ is not copied
CopyConstruct(objs, o, other) ==
    [objs EXCEPT ![o] = [CopyFrom([objs EXCEPT ![o] = Facade(o)], o, other)
                           EXCEPT !.contextStack_ = << >>]]

\* operator=(const JsonableBase& other)
CopyAssign(objs, o, other) ==
    IF o # other
    THEN [objs EXCEPT ![o] = [CopyFrom(objs, o, other) EXCEPT !.contextStack_ = << >>]]
    ELSE objs

\* the facades after a call on facade o with result r
After(objs, o, r) ==
    [[objs EXCEPT ![objs[o].allocator].document_ = r.document_]
        EXCEPT ![o].contextStack_ = r.contextStack_]

InitCopy ==
    /\ document_ = EmptyObject
    /\ contextStack_ = << >>
    /\ status = "running"
    /\ last = NoCall
    /\ ncalls = 0
    /\ brackets = << >>
    /\ matched = TRUE
    /\ expect = ExpectInit
    /\ covered = TRUE
    /\ ret = NoReturn
    /\ objects = [o \in ObjectNames |-> Facade(o)]
    /\ hist = << >>

\* one call, kept in hist: objs are the facades after it
CopyRun(call, objs, asserted) ==
    /\ status = "running"
    /\ ncalls < MaxCopyCalls
    /\ ncalls' = ncalls + 1
    /\ last' = call
    /\ hist' = Append(hist, call)
    /\ IF asserted
       THEN /\ status' \in {"aborted", "undefined"}
            /\ UNCHANGED objects
       ELSE /\ status' = "running"
            /\ objects' = objs
    /\ UNCHANGED << document_, contextStack_, brackets, matched, expect, covered, ret >>

\* a call of a member function on facade o
On(o, call) ==
    LET r == Exec(call, DocumentOf(objects, o), objects[o].contextStack_)
    IN  CopyRun(Call(call.op, o, call.val), After(objects, o, r), r.asserted)

CallCopyConstruct(o, other) ==
    CopyRun(Call("copy", o, other), CopyConstruct(objects, o, other), FALSE)

CallCopyAssign(o, other) ==
    CopyRun(Call("operator=", o, other), CopyAssign(objects, o, other), FALSE)

NextCopy ==
    \/ \E o \in ObjectNames, key \in Keys, value \in Strings :
          On(o, Call("setString", key, value))
    \/ \E o \in ObjectNames, key \in {nullptr, "a"} : On(o, Call("beginObject", key, NoValue))
    \/ \E o \in ObjectNames : On(o, Call("beginArray", "b", NoValue))
    \/ \E o \in ObjectNames, value \in Strings : On(o, Call("pushString", nullptr, value))
    \/ \E o \in ObjectNames : On(o, Call("endObject", nullptr, NoValue))
    \/ \E o \in ObjectNames : On(o, Call("endArray", nullptr, NoValue))
    \/ \E o \in ObjectNames : \E other \in ObjectNames \ {o} : CallCopyConstruct(o, other)
    \/ \E o \in ObjectNames, other \in ObjectNames : CallCopyAssign(o, other)

SpecCopy == InitCopy /\ [][NextCopy]_vars

\* ------------------------------------------------------------------ moves
\* The two facades with the moving constructor and assignment.  A frame's
\* pointer is a path from the root of its facade's own document_; a pointer at
\* the document_ member of another facade object is RootOf of that facade.

\* number of calls in one run of SpecMove
MaxMoveCalls == 4

\* &o.document_ as seen from another facade
RootOf(o) == << IF o = "x" THEN -1 ELSE -2 >>

\* what GenericDocument(GenericDocument&&) and vector(vector&&) leave in the
\* source: a Null root, no allocator, no frames
MovedFrom == [document_ |-> NoValue, contextStack_ |-> << >>, allocator |-> nullptr]

\* contextStack_(std::move(other.contextStack_)): the frames with the pointers
\* they hold.  The values below the root went over to the destination with
\* the allocator; the root value is the document_ member of each object, so a
\* pointer at the source's root stays one at the source's root.  gone is what
\* a pointer at the destination's former root is now.
MoveFrames(stack, o, other, gone) ==
    [f \in 1..Len(stack) |->
        [stack[f] EXCEPT !.current =
            IF @ = << >> THEN RootOf(other)
            ELSE IF @ = RootOf(o) THEN gone
            ELSE @]]

\* JsonableBase(JsonableBase&& other): a new facade under the name o; the
\* object that had the name is destroyed
MoveConstruct(objs, o, other) ==
    [objs EXCEPT
        ![o] = [document_ |-> objs[other].document_,
                contextStack_ |-> MoveFrames(objs[other].contextStack_, o, other, Orphan),
                allocator |-> IF objs[other].allocator = nullptr THEN nullptr ELSE o],
        ![other] = MovedFrom]

\* operator=(JsonableBase&& other)
MoveAssign(objs, o, other) ==
    IF o # other
    THEN [objs EXCEPT
            ![o] = [document_ |-> objs[other].document_,
                    contextStack_ |-> MoveFrames(objs[other].contextStack_, o, other, << >>),
                    allocator |-> IF objs[other].allocator = nullptr THEN nullptr ELSE o],
            ![other] = MovedFrom]
    ELSE objs

\* one call, kept in hist: objs are the facades after it
MoveRun(call, objs, asserted) ==
    /\ status = "running"
    /\ ncalls < MaxMoveCalls
    /\ ncalls' = ncalls + 1
    /\ last' = call
    /\ hist' = Append(hist, call)
    /\ IF asserted
       THEN /\ status' \in {"aborted", "undefined"}
            /\ UNCHANGED objects
       ELSE /\ status' = "running"
            /\ objects' = objs
    /\ UNCHANGED << document_, contextStack_, brackets, matched, expect, covered, ret >>

\* the top frame of o, if any, points into o's own Document
TopInDocument(objs, o) ==
    IF objs[o].contextStack_ = << >> THEN TRUE
    ELSE LET ptr == Back(objs[o].contextStack_).current
         IN  IF ptr = << >> THEN TRUE ELSE Head(ptr) > 0

\* a call of a member function on facade o.  On a moved-from facade
\* document_.GetAllocator() asserts its allocator_, which set and begin call
\* and end and push do not.  A call that goes through a frame pointing outside
\* o's Document is not followed.
OnMovable(o, call) ==
    /\ TopInDocument(objects, o)
    /\ IF objects[o].allocator = nullptr
       THEN MoveRun(Call(call.op, o, call.val), objects,
                    call.op \in SetOps \cup BeginOps)
       ELSE LET r == Exec(call, objects[o].document_, objects[o].contextStack_)
            IN  MoveRun(Call(call.op, o, call.val),
                        [objects EXCEPT ![o].document_ = r.document_,
                                        ![o].contextStack_ = r.contextStack_],
                        r.asserted)

CallMoveConstruct(o, other) ==
    MoveRun(Call("move", o, other), MoveConstruct(objects, o, other), FALSE)

CallMoveAssign(o, other) ==
    MoveRun(Call("operator=&&", o, other), MoveAssign(objects, o, other), FALSE)

NextMove ==
    \/ \E o \in ObjectNames, key \in Keys, value \in Strings :
          OnMovable(o, Call("setString", key, value))
    \/ \E o \in ObjectNames, key \in {nullptr, "a"} :
          OnMovable(o, Call("beginObject", key, NoValue))
    \/ \E o \in ObjectNames : OnMovable(o, Call("beginArray", "b", NoValue))
    \/ \E o \in ObjectNames, value \in Strings :
          OnMovable(o, Call("pushString", nullptr, value))
    \/ \E o \in ObjectNames : OnMovable(o, Call("endObject", nullptr, NoValue))
    \/ \E o \in ObjectNames : OnMovable(o, Call("endArray", nullptr, NoValue))
    \/ \E o \in ObjectNames : \E other \in ObjectNames \ {o} : CallMoveConstruct(o, other)
    \/ \E o \in ObjectNames, other \in ObjectNames : CallMoveAssign(o, other)

SpecMove == InitCopy /\ [][NextMove]_vars

\* ------------------------------------------------------------------ callbacks
\* toJson and fromJson statement by statement: hist is the log of the
\* statements executed, and the statement to execute next follows from it.

\* number of statements in one run of SpecCalls
MaxStatements == 4

\* fromJson without the call of loadFromJson when the parse failed
NextStatement_ReturnsOnParseError(log) ==
    IF log = << >> THEN "call"
    ELSE LET done == log[Len(log)]
         IN  CASE done.op = "parseFromString" ->
                     IF Parse(TextRead(done.val)).ok THEN "loadFromJson" ELSE "call"
               [] done.op = "saveToJson" -> "documentToString"
               [] done.op = "parseJson" ->
                     IF parseJson(done.val.text).threw THEN "call" ELSE "fromDocument"
               [] OTHER -> "call"

\* fromJson is parseFromString(jsonStr); loadFromJson(); and toJson is
\* saveToJson(); return documentToString(); and fromJson of the static-helper
\* interface is auto doc = parseJson(jsonStr); fromDocument(doc); : what
\* follows the last statement executed ("call" when the caller is to make the
\* next call)
NextStatement(log) ==
    IF log = << >> THEN "call"
    ELSE LET done == log[Len(log)]
         IN  CASE done.op = "parseFromString" -> "loadFromJson"
               [] done.op = "saveToJson" -> "documentToString"
               [] done.op = "parseJson" ->
                     \* the exception leaves fromJson
                     IF parseJson(done.val.text).threw THEN "call" ELSE "fromDocument"
               [] OTHER -> "call"

\* the object the call in progress was made on
Callee(log) == log[Len(log)].key

InitCalls ==
    /\ document_ = EmptyObject
    /\ contextStack_ = << >>
    /\ status = "running"
    /\ last = NoCall
    /\ ncalls = 0
    /\ brackets = << >>
    /\ matched = TRUE
    /\ expect = ExpectInit
    /\ covered = TRUE
    /\ ret = NoReturn
    /\ \E type \in UserTypes :
         \E fx \in FieldValues(type), fy \in FreshFields(type) :
            objects = [o \in ObjectNames |-> Object(type, IF o = "x" THEN fx ELSE fy)]
    /\ hist = << >>

\* what a statement that threw leaves in place of a result
Thrown == "std::runtime_error"

\* one statement of toJson or fromJson on object o, after which the objects
\* are objs
Statement(op, o, val, objs, asserted, value) ==
    /\ status = "running"
    /\ ncalls < MaxStatements
    /\ NextStatement(hist) =
          (IF op \in {"parseFromString", "saveToJson", "parseJson"} THEN "call" ELSE op)
    /\ ncalls' = ncalls + 1
    /\ last' = Call(op, o, val)
    /\ hist' = Append(hist, Call(op, o, val))
    /\ IF asserted
       THEN /\ status' \in {"aborted", "undefined"}
            /\ ret' = NoReturn
            /\ UNCHANGED objects
       ELSE /\ status' = "running"
            /\ ret' = value
            /\ objects' = objs
    /\ UNCHANGED << document_, contextStack_, brackets, matched, expect, covered >>

\* fromJson(jsonStr) of the static-helper interface is called on a Person:
\* auto doc = parseJson(jsonStr)
StrictFromJsonParses(o, jsonStr) ==
    Statement("parseJson", o, jsonStr, objects, FALSE,
              IF parseJson(jsonStr.text).threw THEN Thrown ELSE NoReturn)

\* fromDocument(doc), and return
StrictFromJsonLoads ==
    Statement("fromDocument", Callee(hist), NoValue, objects, FALSE, NoReturn)

\* fromJson(jsonStr) is called: parseFromString(jsonStr)
FromJsonParses(o, jsonStr) ==
    LET obj == objects[o]
        r == parseFromString(obj.document_, obj.contextStack_, jsonStr)
    IN  Statement("parseFromString", o, jsonStr,
                  [objects EXCEPT ![o].document_ = r.document_,
                                  ![o].contextStack_ = r.contextStack_],
                  r.asserted, NoReturn)

\* fromJson: loadFromJson(), and return
FromJsonLoads ==
    LET o == Callee(hist)
        obj == objects[o]
        l == loadFromJson(obj.type, obj.fields, obj.document_)
    IN  Statement("loadFromJson", o, NoValue, [objects EXCEPT ![o].fields = l.fields],
                  l.asserted, NoReturn)

\* toJson() is called: saveToJson()
ToJsonSaves(o) ==
    LET obj == objects[o]
        r == saveToJson(obj.type, obj.fields, obj.document_, obj.contextStack_)
    IN  Statement("saveToJson", o, NoValue,
                  [objects EXCEPT ![o].document_ = r.document_,
                                  ![o].contextStack_ = r.contextStack_],
                  r.asserted, NoReturn)

\* toJson: return documentToString()
ToJsonReturns ==
    LET o == Callee(hist)
    IN  Statement("documentToString", o, NoValue, objects, FALSE,
                  documentToString(objects[o].document_))

\* {} and, after a zero byte, x
TextCutByNul == NotJson(<< Punct("{"), Punct("}"), NulTok, Tok("word", "x", 0) >>)

\* the texts handed to fromJson
CallTexts == {TextStringNull, TextEmptyObject, TextNotValid, TextEmpty, TextCutByNul}

NextCalls ==
    \/ \E o \in ObjectNames : \E jsonStr \in CallTexts : FromJsonParses(o, jsonStr.text)
    \/ FromJsonLoads
    \/ \E jsonStr \in CallTexts : StrictFromJsonParses("person", jsonStr)
    \/ StrictFromJsonLoads
    \/ \E o \in ObjectNames : ToJsonSaves(o)
    \/ ToJsonReturns

SpecCalls == InitCalls /\ [][NextCalls]_vars

\* ------------------------------------------------------------------ frames
\* The writers with setArray called at any time, also on a member that open
\* frames are inside of.  A frame whose value left the Document is not
\* followed further: what is written through it goes to the pool, not to the
\* Document.

\* number of calls in one run of SpecFrames
MaxFrameCalls == 4

\* every frame points at a value
Attached(stack) == \A f \in 1..Len(stack) : stack[f].current # Orphan

Framed(A) == ncalls < MaxFrameCalls /\ Attached(contextStack_) /\ A

CallSetArrayAnywhere(T, key, values) ==
    Step(Call("setArray", key, Arr([i \in 1..Len(values) |-> convertToValue(T, values[i])])),
         setArray(document_, contextStack_, T, key, values))

NextFrames ==
    \/ \E key \in Keys, value \in Strings : Framed(CallSetString(key, value))
    \/ \E key \in Keys, value \in Int64s : Framed(CallSetInt64(key, value))
    \/ \E value \in Strings : Framed(CallPushString(value))
    \/ \E key \in {nullptr} \cup Keys : Framed(CallBeginObject(key))
    \/ \E key \in Keys : Framed(CallBeginArray(key))
    \/ Framed(CallEndObject)
    \/ Framed(CallEndArray)
    \/ \E key \in Keys, values \in StringArrays :
          Framed(CallSetArrayAnywhere("string", key, values))

SpecFrames == Init /\ [][NextFrames]_vars

\* ------------------------------------------------------------------ containers in arrays
\* The writers with pushObject and pushArray.  The denotation of the call
\* history (expect, covered, brackets) does not know the two calls.

\* number of calls in one run of SpecPush
MaxPushCalls == 4

Pushing(A) == ncalls < MaxPushCalls /\ A

CallPushObject ==
    Step(Call("pushObject", nullptr, NoValue), pushObject(document_, contextStack_))

CallPushArray ==
    Step(Call("pushArray", nullptr, NoValue), pushArray(document_, contextStack_))

NextPush ==
    \/ \E key \in Keys, value \in Strings : Pushing(CallSetString(key, value))
    \/ \E value \in Strings : Pushing(CallPushString(value))
    \/ \E key \in {nullptr} \cup Keys : Pushing(CallBeginObject(key))
    \/ \E key \in {nullptr} \cup Keys : Pushing(CallBeginArray(key))
    \/ Pushing(CallEndObject)
    \/ Pushing(CallEndArray)
    \/ Pushing(CallPushObject)
    \/ Pushing(CallPushArray)

SpecPush == Init /\ [][NextPush]_vars

\* ------------------------------------------------------------------ observations

\* activeTarget(): the value of the top frame, the document root on an empty stack
Active(doc, stack) == IF stack = << >> THEN doc ELSE Deref(doc, Back(stack).current)

RECURSIVE MembersIn(_)
\* number of object members anywhere in a value
MembersIn(v) ==
    LET Sum[i \in 0..Len(v.c)] ==
            IF i = 0 THEN 0 ELSE Sum[i - 1] + MembersIn(v.c[i].value)
    IN  (IF IsObject(v) THEN Len(v.c) ELSE 0) + Sum[Len(v.c)]

\* positions of the members of v named key
Named(v, key) == {i \in 1..Len(v.c) : v.c[i].name = key}

\* the step is a call of one of ops
Calls(ops) == ncalls' = ncalls + 1 /\ last'.op \in ops

TopIsArray == contextStack_ # << >> /\ Back(contextStack_).isArray

TopIsObject == contextStack_ # << >> /\ ~Back(contextStack_).isArray

\* the getter named op
GetBy(op, doc, key, defaultValue) ==
    CASE op = "getString" -> getString(doc, key, defaultValue)
      [] op = "getInt64" -> getInt64(doc, key, defaultValue)
      [] op = "getDouble" -> getDouble(doc, key, defaultValue)
      [] op = "getFloat" -> getFloat(doc, key, defaultValue)
      [] op = "getBool" -> getBool(doc, key, defaultValue)
      [] op = "getUInt32" -> getUInt32(doc, key, defaultValue)
      [] op = "getUInt64" -> getUInt64(doc, key, defaultValue)

\* the JSON kinds the getter named op takes no value from
Incompatible(op, v) ==
    CASE op = "getString" -> ~IsString(v)
      [] op = "getBool" -> ~IsBool(v)
      [] OTHER -> IsString(v) \/ IsArray(v) \/ IsObject(v) \/ IsNull(v)

\* where the active target is: the top frame's pointer, the root on an empty stack
ActivePtr(stack) == IF stack = << >> THEN << >> ELSE Back(stack).current

\* the JSON kinds a value of element type T is taken from
KindCompatible(T, v) ==
    CASE T = "string" -> IsString(v)
      [] T = "bool" -> IsBool(v)
      [] OTHER -> IsNumber(v)

\* the value of element type T a kind-compatible JSON value stands for
ConversionOf(T, v) ==
    CASE T = "string" -> v.s
      [] T = "bool" -> v.s = "true"
      [] T \in {"double", "float"} -> GetDouble(v)
      [] OTHER -> IF IsDouble(v) THEN CastToInt64(v.n) ELSE v.n

\* set<Kind>("", v) for the value of the push<Kind>(v) call
SetLikePush(call, doc, stack) ==
    CASE call.op = "pushString" -> setString(doc, stack, "", call.val.s)
      [] call.op = "pushInt64" -> setInt64(doc, stack, "", call.val.n)
      [] call.op = "pushDouble" -> setDouble(doc, stack, "", call.val.n)
      [] call.op = "pushBool" -> setBool(doc, stack, "", call.val.s = "true")

RECURSIVE IsValueOf(_, _)
\* path leads to a value that is part of the tree doc
IsValueOf(doc, path) ==
    \/ path = << >>
    \/ /\ Head(path) \in 1..Len(doc.c)
       /\ IsValueOf(doc.c[Head(path)].value, Tail(path))

RECURSIVE UniqueNames(_)
\* no object in the tree v has two members of one name
UniqueNames(v) ==
    /\ IsObject(v) => \A i \in 1..Len(v.c), j \in 1..Len(v.c) :
                         v.c[i].name = v.c[j].name => i = j
    /\ \A i \in 1..Len(v.c) : UniqueNames(v.c[i].value)

\* new is old with one member upserted: one member's value replaced, or one
\* member added behind the others
UpsertsOne(old, new) ==
    /\ IsObject(old) /\ IsObject(new)
    /\ \/ /\ Len(new.c) = Len(old.c)
          /\ \E i \in 1..Len(old.c) :
                /\ new.c[i].name = old.c[i].name
                /\ \A j \in 1..Len(old.c) : j # i => new.c[j] = old.c[j]
       \/ /\ Len(new.c) = Len(old.c) + 1
          /\ SubSeq(new.c, 1, Len(old.c)) = old.c

\* new is old with one element appended
AppendsOne(old, new) ==
    /\ IsArray(old) /\ IsArray(new)
    /\ Len(new.c) = Len(old.c) + 1
    /\ SubSeq(new.c, 1, Len(old.c)) = old.c

\* ------------------------------------------------------------------ claims

\* C1: a well-bracketed begin/end sequence on a fresh facade (begins in an
\* object context carry a fresh non-empty key, a keyless beginObject on the
\* empty stack opens the root, begins in an array context carry no key), with
\* set/push calls between a begin and its end, runs without failure and, once every
\* bracket is closed, leaves the Document equal to the tree the sequence denotes.
C1_DocumentIsDenotedTree ==
    covered => /\ status = "running"
               /\ Len(expect) = 1 => document_ = expect[1].node

\* a closed sequence that built an array holding a value inside a nested container
C1_Witness ==
    /\ covered /\ Len(expect) = 1 /\ status = "running"
    /\ \E i \in 1..Len(document_.c) :
          \E j \in 1..Len(document_.c[i].value.c) :
             /\ IsArray(document_.c[i].value.c[j].value)
             /\ Size(document_.c[i].value.c[j].value) > 0

\* C2: with an ARRAY frame on top, every set<Kind>(key, v), whatever the key,
\* appends v as the last element of the active array, keeps the earlier
\* elements, adds no object member anywhere and leaves the stack alone.
C2_ArraySetAppends ==
    [][(TopIsArray /\ Calls(SetOps)) =>
          /\ status' = "running"
          /\ Active(document_', contextStack_).c
                = Append(Active(document_, contextStack_).c, Child("", last'.val))
          /\ MembersIn(document_') = MembersIn(document_)
          /\ contextStack_' = contextStack_]_vars

\* C3: with an OBJECT frame on top, set<Kind>(nullptr, v) and set<Kind>("", v)
\* complete and change neither the Document nor the stack.
C3_ObjectNullKeyDropped ==
    [][(TopIsObject /\ Calls(SetOps) /\ last'.key \in {nullptr, ""}) =>
          /\ status' = "running"
          /\ document_' = document_
          /\ contextStack_' = contextStack_]_vars

\* a keyless set was just made inside an open object frame that holds a field
C3_Witness ==
    /\ status = "running" /\ TopIsObject
    /\ last.op \in SetOps /\ last.key \in {nullptr, ""}
    /\ Size(Active(document_, contextStack_)) > 0

\* C4: on the empty stack, set<Kind>(key, v) with a null or empty key
\* completes without failure and adds nothing to the Document root.
C4_RootNullKeyDropped ==
    [][(contextStack_ = << >> /\ Calls(SetOps) /\ last'.key \in {nullptr, ""}) =>
          /\ status' = "running"
          /\ document_' = document_
          /\ contextStack_' = contextStack_]_vars

\* C5: in object mode (empty stack or OBJECT frame on top) set<Kind>(key, v)
\* with a non-empty key is an upsert: afterwards exactly one member of the
\* active object is named key and holds v, every other member is where and
\* what it was, and the member count grows by one iff key was absent.
C5_ObjectSetUpserts ==
    [][(~TopIsArray /\ Calls(SetOps) /\ last'.key \notin {nullptr, ""}) =>
          LET before == Active(document_, contextStack_)
              after == Active(document_', contextStack_)
              key == last'.key
          IN  /\ status' = "running"
              /\ contextStack_' = contextStack_
              /\ Cardinality(Named(after, key)) = 1
              /\ \A i \in Named(after, key) : after.c[i].value = last'.val
              /\ \A i \in 1..Size(before) : before.c[i].name # key => after.c[i] = before.c[i]
              /\ Size(after) = Size(before) + (IF Named(before, key) = {} THEN 1 ELSE 0)]_vars

\* C6: endObject pops exactly one frame iff the top frame is an OBJECT frame,
\* endArray iff it is an ARRAY frame; otherwise the stack is unchanged; the
\* Document is unchanged in every case.
C6_EndPopsMatchingFrame ==
    [][Calls(EndOps) =>
          LET pops == IF last'.op = "endObject" THEN TopIsObject ELSE TopIsArray
          IN  /\ status' = "running"
              /\ document_' = document_
              /\ pops => /\ Len(contextStack_') = Len(contextStack_) - 1
                         /\ contextStack_' = SubSeq(contextStack_, 1, Len(contextStack_'))
              /\ ~pops => contextStack_' = contextStack_]_vars

\* an endArray was just ignored on top of an open object frame
C6_Witness ==
    /\ status = "running" /\ last.op = "endArray" /\ TopIsObject
    /\ ncalls > Len(contextStack_)

\* C7: every beginObject pushes exactly one OBJECT frame and every beginArray
\* exactly one ARRAY frame, whatever the active target and the key argument.
C7_BeginPushesOneFrame ==
    [][Calls(BeginOps) =>
          /\ status' = "running"
          /\ Len(contextStack_') = Len(contextStack_) + 1
          /\ SubSeq(contextStack_', 1, Len(contextStack_)) = contextStack_
          /\ Back(contextStack_').isArray = (last'.op = "beginArray")]_vars

\* C8: beginObject(key) / beginArray(key) with a non-empty key on the root or
\* in an OBJECT frame leaves the active target an empty container of the
\* requested kind, also when the parent already has a member named key.
C8_BeginTargetsNewEmptyContainer ==
    [][(~TopIsArray /\ Calls(BeginOps) /\ last'.key \notin {nullptr, ""}) =>
          /\ status' = "running"
          /\ Len(contextStack_') = Len(contextStack_) + 1
          /\ Active(document_', contextStack_')
                = (IF last'.op = "beginObject" THEN EmptyObject ELSE EmptyArray)]_vars

\* C9: with an ARRAY frame on top, beginObject(key) / beginArray(key), for any
\* key, appends exactly one empty object / array to the active array, adds no
\* member anywhere, and pushes a frame that references the new last element.
C9_ArrayBeginAppendsContainer ==
    [][(TopIsArray /\ Calls(BeginOps)) =>
          LET before == Active(document_, contextStack_)
              after == Active(document_', contextStack_)
              made == IF last'.op = "beginObject" THEN EmptyObject ELSE EmptyArray
          IN  /\ status' = "running"
              /\ after.c = Append(before.c, Child("", made))
              /\ MembersIn(document_') = MembersIn(document_)
              /\ Len(contextStack_') = Len(contextStack_) + 1
              /\ SubSeq(contextStack_', 1, Len(contextStack_)) = contextStack_
              /\ Back(contextStack_').current
                    = Append(Back(contextStack_).current, Size(after))
              /\ Back(contextStack_').isArray = (last'.op = "beginArray")]_vars

LastMade(o) == IF hist[o] = << >> THEN Made("none", << >>) ELSE hist[o][Len(hist[o])]

\* C11: round trip: when v of a user type that saves with set<Kind>/setArray
\* and loads the same keys is freshly constructed, and a fresh w of the same
\* type is given w.fromJson(v.toJson()), w's fields equal v's, field by field.
C11_RoundTripRestoresFields ==
    [][\A v \in ObjectNames, w \in ObjectNames :
          ( /\ Calls({"fromJson"})
            /\ last'.key = w
            /\ v # w
            /\ objects[w].type \in DirectTypes
            /\ hist[w] = << >>
            /\ hist[v] = << Made("toJson", last'.val) >> )
          => objects'[w].fields = objects[v].fields]_vars

\* C12: toJson is idempotent: a toJson() that follows a toJson() on the same
\* unchanged object returns the same text, whatever the user type and the
\* field values, and x.equals(x) is true.
C12_ToJsonIdempotent ==
    [][\A o \in ObjectNames :
          /\ ( /\ Calls({"toJson"})
               /\ last'.key = o
               /\ LastMade(o).op = "toJson" )
             => (status' = "running" /\ ret' = LastMade(o).text)
          /\ ( /\ Calls({"equals"})
               /\ last'.key = o
               /\ last'.val = o )
             => (status' = "running" /\ ret')]_vars

\* C13: after y.fromJson(t) with t = x.toJson(), for x and y of one user type,
\* y.toJson() returns exactly t and x == y holds.
C13_DecodedEncodesTheSame ==
    [][\A x \in ObjectNames, y \in ObjectNames :
          ( /\ x # y
            /\ LastMade(x).op = "toJson"
            /\ LastMade(y) = Made("fromJson", LastMade(x).text) )
          => /\ (Calls({"toJson"}) /\ last'.key = y)
                => (status' = "running" /\ ret' = LastMade(x).text)
             /\ (Calls({"equals"}) /\ {last'.key, last'.val} = {x, y})
                => (status' = "running" /\ ret')]_vars

\* C18: a saveToJson that calls beginArray("x") on the empty stack or inside an
\* open object frame, appends two values and returns without endArray: toJson
\* returns well-formed JSON in which member x is the array of the two values,
\* what was written before is kept, and no error is raised.
C18_UnclosedArrayStillWritten ==
    [][\A o \in ObjectNames :
          ( /\ Calls({"toJson"})
            /\ last'.key = o
            /\ objects[o].type \in UnclosedTypes
            /\ objects[o].contextStack_ = << >> )
          => /\ status' = "running"
             /\ LET r == Parse(ret')
                    inObject == objects[o].type = "UnclosedArrayInObject"
                    holder == IF inObject THEN Member(r.v, "obj") ELSE r.v
                IN  /\ r.ok
                    /\ inObject => /\ HasMember(r.v, "key")
                                   /\ Member(r.v, "key") = StringValue("value")
                                   /\ HasMember(r.v, "obj")
                    /\ IsObject(holder)
                    /\ HasMember(holder, "x")
                    /\ Member(holder, "x")
                         = Arr(<< StringValue("item1"), StringValue("item2") >>)]_vars

\* C14: parsing a text that is not well-formed JSON completes and leaves the
\* Document an empty object, whatever it held before, so that every getter
\* answers with its default afterwards.
C14_MalformedLeavesEmptyObject ==
    [][(Calls({"parseFromString"}) /\ ~last'.val.wellFormed) =>
          /\ status' = "running"
          /\ document_' = EmptyObject
          /\ contextStack_' = << >>]_vars

\* C15: parsing well-formed JSON object text, from any Document and any open
\* frames, completes, empties the context stack and makes the Document
\* exactly the value the text denotes.
C15_ParseReplacesDocument ==
    [][(Calls({"parseFromString"}) /\ last'.val.wellFormed) =>
          /\ status' = "running"
          /\ contextStack_' = << >>
          /\ document_' = last'.val.value]_vars

\* a nested text was just parsed over the work of a caller who had left a frame open
C15_Witness ==
    /\ status = "running" /\ last.op = "parseFromString" /\ last.val = TextNested
    /\ brackets # << >>
    /\ contextStack_ = << >> /\ document_ = TextNested.value

\* C16: get<Kind>(key, d) reads the active target: the member of the nested
\* object an OBJECT frame is open on (d when key is absent there or of an
\* incompatible kind), d when an ARRAY frame is open, and the Document root
\* only when the stack is empty.
C16_GetReadsActiveTarget ==
    [][(/\ Calls(GetOps) /\ last'.key # nullptr
        /\ TopIsArray \/ IsObject(Active(document_, contextStack_))) =>
          /\ status' = "running"
          /\ ret' = (IF TopIsArray THEN last'.val
                     ELSE GetBy(last'.op, Active(document_, contextStack_),
                                last'.key, last'.val).ret)]_vars

\* C17: setArray<Kind>(key, values) upserts member key of the active object
\* (the value of the top OBJECT frame, the root on an empty stack) with the
\* array of the converted values in input order; nothing outside the active
\* object changes and the stack is unchanged.
C17_SetArrayUpsertsInActiveObject ==
    [][(/\ Calls({"setArray"}) /\ last'.key # nullptr /\ ~TopIsArray
        /\ IsObject(Active(document_, contextStack_))) =>
          LET ptr == ActivePtr(contextStack_)
              before == Deref(document_, ptr)
              after == Deref(document_', ptr)
              key == last'.key
          IN  /\ status' = "running"
              /\ contextStack_' = contextStack_
              /\ IsObject(after)
              /\ Cardinality(Named(after, key)) = 1
              /\ \A i \in Named(after, key) : after.c[i].value = last'.val
              /\ \A i \in 1..Size(before) : before.c[i].name # key => after.c[i] = before.c[i]
              /\ Size(after) = Size(before) + (IF Named(before, key) = {} THEN 1 ELSE 0)
              /\ document_' = Store(document_, ptr, after)]_vars

\* C19: for every kind, get<Kind>(key, d) on an object Document without a
\* member named key returns d and changes neither the Document nor the stack.
C19_GetDefaultsWhenAbsent ==
    [][(/\ Calls(GetOps) /\ last'.key # nullptr
        /\ IsObject(document_) /\ ~HasMember(document_, last'.key)) =>
          /\ status' = "running"
          /\ ret' = last'.val
          /\ document_' = document_
          /\ contextStack_' = contextStack_]_vars

\* a getter just answered with its default on a Document that holds other members
C19_Witness ==
    /\ status = "running" /\ last.op \in GetOps /\ last.key # nullptr
    /\ IsObject(document_) /\ Size(document_) > 0 /\ ~HasMember(document_, last.key)
    /\ ret = last.val

\* C20: get<Kind>(key, d) on a member of an incompatible JSON kind (a numeric
\* getter on a string, array, object or null; getString on a non-string;
\* getBool on a non-boolean, numbers included) completes and returns d.
C20_GetDefaultsOnMismatch ==
    [][(/\ Calls(GetOps) /\ last'.key # nullptr
        /\ IsObject(document_) /\ HasMember(document_, last'.key)
        /\ Incompatible(last'.op, Member(document_, last'.key))) =>
          /\ status' = "running"
          /\ ret' = last'.val
          /\ document_' = document_
          /\ contextStack_' = contextStack_]_vars

\* getBool just answered with its default on a member that holds a number
C20_Witness ==
    /\ status = "running" /\ last.op = "getBool" /\ last.key # nullptr
    /\ IsObject(document_) /\ HasMember(document_, last.key)
    /\ IsNumber(Member(document_, last.key))
    /\ ret = last.val

\* C21: getArray<Kind>(key) returns the empty sequence when key is absent or
\* names no array; otherwise a sequence as long as the JSON array, in the same
\* order, whose element i is the conversion of JSON element i when that is
\* kind-compatible and Kind's zero value when it is not.
C21_GetArrayConvertsEachElement ==
    [][( /\ Calls({"getArray"})
         /\ CanLookUp(document_, last'.key) )
       => /\ status' = "running"
          /\ LET T == last'.val
                 key == last'.key
                 array == Member(document_, key)
             IN  IF HasMember(document_, key) /\ IsArray(array)
                 THEN /\ Len(ret') = Size(array)
                      /\ \A i \in 1..Size(array) :
                            ret'[i] = IF KindCompatible(T, array.c[i].value)
                                      THEN ConversionOf(T, array.c[i].value)
                                      ELSE ZeroOf(T)
                 ELSE ret' = << >>]_vars

\* C22: with the top frame in ARRAY mode, push<Kind>(v) leaves the facade in
\* the state set<Kind>("", v) leaves it in, v appended as the last element;
\* on the empty stack and under an OBJECT frame it changes neither the
\* Document nor the stack.
C22_PushIsKeylessSetInArray ==
    [][Calls(PushOps)
       => /\ status' = "running"
          /\ IF TopIsArray
             THEN LET r == SetLikePush(last', document_, contextStack_)
                      array == Active(document_', contextStack_')
                  IN  /\ ~r.asserted
                      /\ document_' = r.document_
                      /\ contextStack_' = r.contextStack_
                      /\ IsArray(array)
                      /\ Size(array) = Size(Active(document_, contextStack_)) + 1
                      /\ array.c[Size(array)].value = Active(r.document_, r.contextStack_).c[Size(array)].value
             ELSE UNCHANGED << document_, contextStack_ >>]_vars

\* C23: after copy construction and after copy assignment the facade's
\* Document equals the source's and its context stack is empty, whatever
\* frames source and destination had open; the two instances share nothing:
\* a call on one leaves the Document and the stack of the other as they were.
C23_CopyIsDeepAndFrameless ==
    [][\A o \in ObjectNames : \A other \in ObjectNames \ {o} :
          /\ (Calls({"copy", "operator="}) /\ last'.key = o /\ last'.val = other)
             => /\ DocumentOf(objects', o) = DocumentOf(objects, other)
                /\ objects'[o].contextStack_ = << >>
                /\ DocumentOf(objects', other) = DocumentOf(objects, other)
                /\ objects'[other].contextStack_ = objects[other].contextStack_
          /\ (Calls(SetOps \cup PushOps \cup BeginOps \cup EndOps) /\ last'.key = o)
             => /\ DocumentOf(objects', other) = DocumentOf(objects, other)
                /\ objects'[other].contextStack_ = objects[other].contextStack_]_vars

\* both facades had frames open when one was assigned a copy of the other's
\* non-empty Document, and a later call on the copy changed its Document
C23_Witness ==
    \E o \in ObjectNames : \E other \in ObjectNames \ {o} :
       /\ Len(hist) = 4
       /\ hist[1].op \in BeginOps /\ hist[1].key = o
       /\ hist[2].op \in BeginOps /\ hist[2].key = other
       /\ hist[3].op = "operator=" /\ hist[3].key = o /\ hist[3].val = other
       /\ hist[4].op \in SetOps /\ hist[4].key = o
       /\ status = "running"
       /\ objects[other].contextStack_ # << >>
       /\ DocumentOf(objects, other) # EmptyObject
       /\ DocumentOf(objects, o) # DocumentOf(objects, other)

\* C24: after well-formed JSON text whose root is no object was parsed, every
\* get<Kind>(key, d) returns d, getArray returns the empty sequence, hasKey
\* answers false, and no call fails.
C24_NonObjectRootReadsAsEmpty ==
    [][( /\ Calls(GetOps \cup {"getArray", "hasKey"})
         /\ last'.key # nullptr
         /\ ~IsObject(document_) )
       => /\ status' = "running"
          /\ CASE last'.op = "getArray" -> ret' = << >>
               [] last'.op = "hasKey" -> ret' = FALSE
               [] OTHER -> ret' = last'.val]_vars

\* C25: fromJson(text) runs the user's loadFromJson exactly once, after the
\* parse attempt, for well-formed and malformed text alike; toJson() runs the
\* user's saveToJson exactly once, before the Document is serialized, and
\* returns the serialization of the Document as saveToJson left it.
C25_CallbacksOnceInOrder ==
    [][/\ \A i \in 1..Len(hist') :
            /\ hist'[i].op = "parseFromString" /\ i < Len(hist')
                  => hist'[i + 1].op = "loadFromJson" /\ hist'[i + 1].key = hist'[i].key
            /\ hist'[i].op = "loadFromJson"
                  => i > 1 /\ hist'[i - 1].op = "parseFromString"
            /\ hist'[i].op = "saveToJson" /\ i < Len(hist')
                  => hist'[i + 1].op = "documentToString" /\ hist'[i + 1].key = hist'[i].key
            /\ hist'[i].op = "documentToString"
                  => i > 1 /\ hist'[i - 1].op = "saveToJson"
       /\ Calls({"loadFromJson"})
             => LET o == last'.key
                    text == hist[Len(hist)].val
                IN  status' = "running"
                       => objects'[o].fields =
                             loadFromJson(objects[o].type, objects[o].fields,
                                          IF Parse(TextRead(text)).ok
                                          THEN Parse(TextRead(text)).v
                                          ELSE objects[o].document_).fields
       /\ Calls({"documentToString"})
             => /\ status' = "running"
                /\ objects' = objects
                /\ ret' = documentToString(objects[last'.key].document_)]_vars

\* loadFromJson has run after a parse that failed, and toJson has returned
\* the text of what saveToJson wrote
C25_Witness ==
    /\ Len(hist) = 4
    /\ hist[1].op = "parseFromString" /\ ~Parse(TextRead(hist[1].val)).ok
    /\ hist[2].op = "loadFromJson"
    /\ hist[3].op = "saveToJson"
    /\ hist[4].op = "documentToString"
    /\ status = "running"
    /\ ret # documentToString(EmptyObject)

\* C26: the strict entry point raises an error for every text that is not
\* well-formed JSON and does not call fromDocument then; the permissive
\* fromJson of the context-stack interface raises for no text.
C26_StrictRaisesPermissiveNever ==
    [][/\ (Calls({"parseJson"}) /\ ~last'.val.wellFormed)
             => /\ ret' = Thrown
                /\ NextStatement(hist') # "fromDocument"
       /\ Calls({"parseFromString", "loadFromJson"}) => ret' # Thrown]_vars

\* C27: after any sequence of begin, end, set, push and setArray calls, every
\* frame on the context stack references a value that is part of the
\* Document; no write through the API invalidates a frame still on the stack.
C27_FramesReferenceDocumentValues ==
    \A f \in 1..Len(contextStack_) : IsValueOf(document_, contextStack_[f].current)

\* C28: every encode pass starts in state ROOT: when toJson invokes saveToJson
\* the context stack of the object is empty, whatever calls came before, so
\* frames an earlier saveToJson left open do not take the writes of this one.
C28_EncodeStartsWithEmptyStack ==
    [][/\ Calls({"toJson"}) => objects[last'.key].contextStack_ = << >>
       /\ Calls({"equals"}) => /\ objects[last'.key].contextStack_ = << >>
                               /\ objects[last'.val].contextStack_ = << >>]_vars

\* C29: in every reachable state each frame's mode flag agrees with the value
\* the frame references: the flag is ARRAY exactly when that value is a JSON
\* array and OBJECT exactly when it is a JSON object, also after setArray on a
\* key for which a frame is open.
C29_FlagAgreesWithValue ==
    \A f \in 1..Len(contextStack_) :
       contextStack_[f].current # Orphan
       => LET value == Deref(document_, contextStack_[f].current)
          IN  /\ contextStack_[f].isArray <=> IsArray(value)
              /\ ~contextStack_[f].isArray <=> IsObject(value)

\* C30: starting from an empty-object Document, after any sequence of
\* set<Kind>, setArray, beginObject, beginArray, end and push calls, no JSON
\* object in the Document contains two members with the same name.
C30_MemberNamesUnique == UniqueNames(document_)

C32_MoveKeepsFramesInDocument ==
    [][\A o \in ObjectNames, other \in ObjectNames :
          ( /\ Calls({"move", "operator=&&"})
            /\ last'.key = o /\ last'.val = other /\ o # other
            /\ objects[other].contextStack_ # << >>
            /\ \A f \in 1..Len(objects[other].contextStack_) :
                  IsValueOf(objects[other].document_, objects[other].contextStack_[f].current) )
          => LET from == objects[other]
                 to == objects'[o]
             IN  /\ to.document_ = from.document_
                 /\ Len(to.contextStack_) = Len(from.contextStack_)
                 /\ \A f \in 1..Len(from.contextStack_) :
                       /\ to.contextStack_[f].key = from.contextStack_[f].key
                       /\ to.contextStack_[f].isArray = from.contextStack_[f].isArray
                       /\ IsValueOf(to.document_, to.contextStack_[f].current)
                       /\ to.contextStack_[f].current = from.contextStack_[f].current]_vars

\* C33: getInt64(key) on a member holding the JSON boolean true returns 1: the
\* integer getter accepts a boolean and coerces it, rather than treating it as
\* a kind mismatch.
C33_GetInt64CoercesTrue ==
    [][( /\ Calls({"getInt64"})
         /\ CanLookUp(document_, last'.key)
         /\ HasMember(document_, last'.key)
         /\ Member(document_, last'.key) = BoolValue(TRUE) )
       => /\ status' = "running"
          /\ ret' = 1]_vars

\* C34: for every JSON integer n in [-2^63, 2^64-1] stored in a member,
\* getInt64, getUInt32 and getUInt64 each return either exactly n or the
\* caller's default; none returns a sign-wrapped or truncated integer.
C34_IntegerGettersExactOrDefault ==
    [][( /\ Calls({"getInt64", "getUInt32", "getUInt64"})
         /\ HasMember(document_, last'.key)
         /\ Member(document_, last'.key).k = "int" )
       => /\ status' = "running"
          /\ ret' \in {Member(document_, last'.key).n, last'.val}]_vars

\* C35: getArray<uint32_t> converts an array element holding the integer n to
\* what getUInt32(key, 0) returns for a member holding n: n itself when
\* 0 <= n <= 2^32-1, otherwise 0; no element comes back as n modulo 2^32 and
\* no element makes the read fail.
C35_ArrayAgreesWithScalarUInt32 ==
    [][( /\ Calls({"getArray"}) /\ last'.val = "uint32_t"
         /\ HasMember(document_, last'.key)
         /\ IsArray(Member(document_, last'.key)) )
       => LET array == Member(document_, last'.key)
          IN  /\ status' = "running"
              /\ Len(ret') = Size(array)
              /\ \A i \in 1..Size(array) :
                    LET n == array.c[i].value.n
                    IN  /\ ret'[i] = getUInt32(Obj(<< Child("a", array.c[i].value) >>), "a", 0).ret
                        /\ ret'[i] = (IF 0 <= n /\ n <= UINT32_MAX THEN n ELSE 0)]_vars

\* C36: pushObject() / pushArray() with an ARRAY-mode top frame appends one
\* new empty object / array as the last element and pushes one frame
\* referencing it, and the matching endObject / endArray returns to the same
\* array frame; on the empty stack or with an OBJECT-mode top frame the call
\* changes neither the Document nor the stack.
C36_PushContainerOnlyInArray ==
    [][Calls({"pushObject", "pushArray"})
       => /\ status' = "running"
          /\ IF TopIsArray
             THEN LET ptr == Back(contextStack_).current
                      isArray == last'.op = "pushArray"
                      container == IF isArray THEN EmptyArray ELSE EmptyObject
                      closed == IF isArray THEN endArray(document_', contextStack_')
                                ELSE endObject(document_', contextStack_')
                  IN  /\ Len(contextStack_') = Len(contextStack_) + 1
                      /\ AppendsOne(Deref(document_, ptr), Deref(document_', ptr))
                      /\ document_' = Store(document_, ptr, Deref(document_', ptr))
                      /\ Active(document_', contextStack_') = container
                      /\ Back(contextStack_').current
                            = Append(ptr, Size(Deref(document_', ptr)))
                      /\ closed.contextStack_ = contextStack_
             ELSE /\ document_' = document_
                  /\ contextStack_' = contextStack_]_vars

\* C37: whenever loadField(key, target, validator) returns false (key absent,
\* or the validator rejects the loaded value), target still holds the value it
\* had before the call; target is changed only when loadField returns true.
C37_LoadFieldKeepsTargetOnFalse ==
    [][(Calls({"loadField"}) /\ status' = "running" /\ ret' = FALSE)
       => objects' = objects]_vars

\* C38: constructing a user type through the Jsonable(jsonStr) constructor
\* parses jsonStr and then runs the user type's own loadFromJson, so the
\* object's fields are populated from jsonStr without a further fromJson call.
C38_StringConstructorLoads ==
    [][\A o \in ObjectNames :
          (Calls({"Jsonable"}) /\ last'.key = o)
          => LET type == objects[o].type
                 r == fromJson(Object(type, DefaultFields), last'.val)
             IN  r.asserted
                 \/ /\ status' = "running"
                    /\ objects'[o].fields = r.obj.fields
                    /\ objects'[o].document_ = r.obj.document_]_vars

====
